---------------------------- MODULE Spec2Model ----------------------------
(***************************************************************************)
(* Model of the multi-vendor e-commerce API: the store gate (validateStore *)
(* and authorizeStore), the staff-role registry of the store controller,   *)
(* and the category and product controllers.                               *)
(*                                                                         *)
(* Every request handler is an async function; control can pass to another *)
(* request at each await.  A handler is modelled as one step per datastore *)
(* round trip that matters, kept in a request slot (reqs[p]).              *)
(*                                                                         *)
(* Datastore semantics assumed of mongoose/MongoDB:                        *)
(*  - findById with an id that is not a 24-hex string rejects (CastError); *)
(*  - doc.save() sends only the changes: array.push() becomes an atomic    *)
(*    $push that increments __v and has no version condition; assigning to *)
(*    a field of array element i becomes $set "arr.i.field" conditioned on *)
(*    the __v that was read; assigning a whole array becomes $set of the   *)
(*    array conditioned on __v and incrementing it;                        *)
(*  - findByIdAndUpdate/updateMany apply their operators atomically and    *)
(*    leave __v alone;                                                     *)
(*  - a unique index rejects the insert or update that would duplicate it. *)
(* The __v comparison is kept as a per-slot flag "stale": the document the *)
(* slot holds was read at a __v that has since been incremented.           *)
(***************************************************************************)
EXTENDS Integers, Sequences, FiniteSets, TLC

\* ------------------------------------------------------------ bounds
MaxStores == 2
MaxUsers == 2
MaxSlots == 2
MaxRoleEntries == 2
MaxCategories == 2
MaxProducts == 2
MaxImages == 3
MaxFiles == 2
MaxSku == 2
MaxPrice == 1

StoreIds == 1..MaxStores
UserIds == 1..MaxUsers
Slots == 1..MaxSlots
CatIds == 1..MaxCategories
ProductIds == 1..MaxProducts

\* ------------------------------------------------------------ values
NoId == 0            \* undefined / empty string: falsy in JavaScript
Malformed == -1      \* a string that does not cast to an ObjectId
NoStore == 0
NoUser == 0

IdInputs == {NoId, Malformed} \cup StoreIds

StoreRoleNames == {"store_admin", "store_manager", "store_staff"}
GlobalRoles == {"customer", "admin", "superadmin"}

storeRoleSchema == [storeId : StoreIds \cup {NoStore}, role : StoreRoleNames]

\* the allowed-role sets the routers pass to authorizeStore
RequiredRoles(op) ==
  CASE op = "updateStore" -> {"store_admin"}
    [] op = "deleteStore" -> {"store_admin"}
    [] op = "manageStaffRole" -> {"store_admin"}
    [] op = "removeStaffRole" -> {"store_admin"}
    [] op = "getStoreStaff" -> {"store_admin", "store_manager"}
    [] op = "createCategory" -> {"store_admin", "store_manager"}
    [] op = "updateCategory" -> {"store_admin", "store_manager"}
    [] op = "deleteCategory" -> {"store_admin"}
    [] op = "createProduct" -> {"store_admin", "store_manager"}
    [] op = "updateProduct" -> {"store_admin", "store_manager"}
    [] op = "deleteProduct" -> {"store_admin"}
    [] op = "deleteProductImage" -> {"store_admin", "store_manager"}
    [] OTHER -> {}

StoreOps == {"updateStore", "deleteStore", "manageStaffRole", "removeStaffRole",
             "getStoreStaff"}
CategoryOps == {"createCategory", "updateCategory", "deleteCategory"}
ProductOps == {"createProduct", "updateProduct", "deleteProduct"}
CategoryNames == {"Shoes", "Hats"}

VARIABLES
  stores,     \* Store collection: id -> [status, isActive, name, slug, logo]
  nextStore,  \* number of ObjectIds Store.create has handed out
  users,      \* User collection: id -> [exists, role, storeRoles]
  tokens,     \* the JWT each user holds: what auth.js reads of it, [role]
  issued,     \* history: the storeRoles written into each user's JWT
  reqs,       \* request slots: the handler in flight in each, or its response
  probe,      \* history: the last validateStore call of a public read route
  categories, \* Category collection: id -> [status, name, storeId, image,
              \*   isSubcategory, parentCategory]
  nextCategory, \* number of ObjectIds Category.create has handed out
  products,   \* Product collection: id -> [status, storeId, sku, categories,
              \*   images, colors, name, description, price, featured]
  nextProduct,  \* number of ObjectIds Product.create has handed out
  nextImage,  \* number of image pairs uploaded to the object store
  bucket      \* the keys of the objects in the object store

vars == <<stores, nextStore, users, tokens, issued, reqs, probe,
          categories, nextCategory, products, nextProduct, nextImage, bucket>>

\* everything but the request slots, by controller
registry == <<stores, nextStore, users, tokens, issued, probe>>
catalog == <<categories, nextCategory, products, nextProduct, nextImage, bucket>>

NoCategory(status) == [status |-> status, name |-> "none", storeId |-> NoStore,
                       image |-> 0, isSubcategory |-> FALSE,
                       parentCategory |-> NoId]
\* the characters String.prototype.toUpperCase changes, among those used here
Lower == <<"a", "b", "c", "d", "e", "f", "i", "o", "y", "z">>
Upper == <<"A", "B", "C", "D", "E", "F", "I", "O", "Y", "Z">>
toUpperCase(str) ==
  [i \in DOMAIN str |->
     IF \E k \in DOMAIN Lower : Lower[k] = str[i]
     THEN Upper[CHOOSE k \in DOMAIN Lower : Lower[k] = str[i]] ELSE str[i]]

toLowerCase(str) ==
  [i \in DOMAIN str |->
     IF \E k \in DOMAIN Upper : Upper[k] = str[i]
     THEN Lower[CHOOSE k \in DOMAIN Upper : Upper[k] = str[i]] ELSE str[i]]

\* the characters /[^a-zA-Z0-9]/ matches, among those used here
NonAlphanumeric == {" ", "-", "_"}

\* replace(/-+/g, '-')
RECURSIVE CollapseHyphens(_)
CollapseHyphens(str) ==
  IF Len(str) < 2 THEN str
  ELSE IF str[1] = "-" /\ str[2] = "-" THEN CollapseHyphens(Tail(str))
  ELSE <<str[1]>> \o CollapseHyphens(Tail(str))

\* replace(/^-+|-+$/g, '')
RECURSIVE TrimHyphens(_)
TrimHyphens(str) ==
  IF str = <<>> THEN str
  ELSE IF str[1] = "-" THEN TrimHyphens(Tail(str))
  ELSE IF str[Len(str)] = "-" THEN TrimHyphens(SubSeq(str, 1, Len(str) - 1))
  ELSE str

\* the slug createStore and the pre-save hook of Store derive from a name
slug(name) ==
  TrimHyphens(CollapseHyphens(
    [i \in DOMAIN name |->
       IF toLowerCase(name)[i] \in NonAlphanumeric THEN "-"
       ELSE toLowerCase(name)[i]]))

\* String.prototype.substr(-n): the last n characters
substr(str, n) == SubSeq(str, IF Len(str) > n THEN Len(str) - n + 1 ELSE 1, Len(str))
\* String.prototype.substring(a, b), 0-based, b exclusive
substring(str, a, b) ==
  SubSeq(str, a + 1, IF Len(str) < b THEN Len(str) ELSE b)

\* ObjectId.toString(): 24 hex characters, of which the model keeps the end
Digits == <<"1", "2", "3", "4", "5", "6", "7", "8", "9">>

\* Store documents: a store that was never created, and the store s of a run
\* that starts with stores in place, named "ab<s>", without logo
NoStoreDoc == [status |-> "none", isActive |-> FALSE, name |-> <<>>, slug |-> <<>>,
               logo |-> 0]
StoreName(s) == <<"a", "b", Digits[s]>>
LiveStore(s) == [status |-> "live", isActive |-> TRUE, name |-> StoreName(s),
                 slug |-> slug(StoreName(s)), logo |-> 0]
toString(storeId) == <<"6", "7", "e", "0", "0", Digits[storeId]>>

\* Math.random().toString(36) for the values Math.random() takes in a run:
\* 0.5 is "0.i"; the others have many digits
toString36(n) ==
  IF n = 1 THEN <<"0", ".", "i">>
  ELSE IF n = 2 THEN <<"0", ".", "4", "f", "z", "y", "o", "8">>
  ELSE <<"0", ".", "a", "b", "c", "d", "e", "f", Digits[n]>>

\* generateSKU: `${prefix}${storePrefix}-${randomPart}`.toUpperCase(), kept as
\* its three parts; the prefix literal has no lower-case letter
generateSKU(storeId, n) ==
  [prefix |-> "LABEL-",
   storePrefix |-> toUpperCase(substr(toString(storeId), 4)),
   randomPart |-> toUpperCase(substring(toString36(n), 2, 6))]

NoSku == [prefix |-> "none", storePrefix |-> <<>>, randomPart |-> <<>>]

NoProduct(status) == [status |-> status, storeId |-> NoStore, sku |-> NoSku,
                      categories |-> <<>>, images |-> <<>>, colors |-> <<>>,
                      name |-> "none", description |-> "none", price |-> 0,
                      featured |-> FALSE]

\* req.body.price of updateProduct: not there, the number of a JSON body or the
\* string of a multipart form
NoPrice == [enc |-> "absent", n |-> 0]
PriceInputs ==
  {NoPrice} \cup {[enc |-> e, n |-> n] : e \in {"json", "form"}, n \in 0..MaxPrice}

\* req.body.colors of updateProduct: not there, or the JSON text of a list
NoColors == [given |-> FALSE, parsed |-> <<>>]

\* the body of updateProduct with none of name, description, price, featured
\* and colors; "none" and "absent" stand for undefined
NoFields == [name |-> "none", description |-> "none", price |-> NoPrice,
             featured |-> "absent", colors |-> NoColors]

\* A history variable holds NotKept throughout a run that keeps no history.
NotKept == <<>>

NoToken == [role |-> "none"]

\* the outcome of a handler's uploads: none threw (at = 0), or the at-th
\* processAndUploadImage threw in sharp, in the put of the original or in the
\* put of the thumbnail
Stages == {"resize", "original", "thumbnail"}
NoFailure == [at |-> 0, stage |-> "none"]
UploadFailures(uploads) ==
  {NoFailure} \cup {[at |-> i, stage |-> st] : i \in 1..uploads, st \in Stages}

\* the outcomes that leave no object of the failing upload in the object store
CleanFailures(uploads) == {f \in UploadFailures(uploads) : f.stage # "thumbnail"}

IdleReq == [pc |-> "idle", op |-> "none", user |-> NoUser, store |-> NoStore,
            id |-> NoId, target |-> NoUser, role |-> "none", idx |-> 0,
            doc |-> <<>>, stale |-> FALSE, resp |-> "none",
            name |-> "none", cats |-> <<>>, files |-> 0, imgs |-> <<>>,
            cimgs |-> <<>>, fails |-> {}, failed |-> <<>>, color |-> "none",
            upload |-> NoFailure, image |-> 0, sku |-> NoSku, assets |-> <<>>,
            isSubcategory |-> "absent", parent |-> NoId, called |-> {},
            fields |-> NoFields, storeName |-> <<>>]

\* ------------------------------------------------------------ helpers
RECURSIVE SelectSeq2(_, _, _)
\* Array.prototype.filter keeping the entries whose storeId differs from s
SelectSeq2(seq, s, i) ==
  IF i > Len(seq) THEN <<>>
  ELSE (IF seq[i].storeId # s THEN <<seq[i]>> ELSE <<>>) \o SelectSeq2(seq, s, i + 1)

FilterOutStore(seq, s) == SelectSeq2(seq, s, 1)

\* Array.prototype.findIndex on storeRoles by storeId; 0 stands for -1
FindIndex(seq, s) ==
  IF \E i \in 1..Len(seq) : seq[i].storeId = s
  THEN CHOOSE i \in 1..Len(seq) :
         seq[i].storeId = s /\ \A j \in 1..(i - 1) : seq[j].storeId # s
  ELSE 0

\* a slot is free when it holds no request or an answered one; a request is
\* taken by the first free slot
Idle(p) == reqs[p].pc \in {"idle", "done"}
Free(p) == Idle(p) /\ \A q \in 1..(p - 1) : ~Idle(q)

\* res.status(..).json(..): the slot keeps the request's route, principal and
\* store with the response
Response(r, resp) ==
  [IdleReq EXCEPT !.pc = "done", !.op = r.op, !.user = r.user, !.store = r.store,
                  !.resp = resp]

Respond(p, resp) == reqs' = [reqs EXCEPT ![p] = Response(reqs[p], resp)]

\* every slot holding a document of user u read before this write is stale
MarkStale(rs, u, except) ==
  [q \in Slots |->
     IF q # except /\ rs[q].target = u /\ rs[q].pc \in {"ms_save", "rs_save"}
     THEN [rs[q] EXCEPT !.stale = TRUE] ELSE rs[q]]


\* ------------------------------------------------------------ images
\* processAndUploadImage: the pair of URLs of the n-th upload of the run
Pair(n) == [original |-> 2 * n - 1, thumbnail |-> 2 * n]
NoPair == [original |-> 0, thumbnail |-> 0]

\* deleteFromS3 throws for the keys in fails; the pair's deletion fails when the
\* deletion of its original or, that done, of its thumbnail throws
PairFails(pair, fails) ==
  (pair.original # 0 /\ pair.original \in fails)
    \/ (pair.thumbnail # 0 /\ pair.thumbnail \in fails)

\* A string with slashes is kept as the sequence of its parts, "/" being a part
\* of its own. String.prototype.split('/'):
RECURSIVE split(_)
split(str) ==
  IF \A i \in DOMAIN str : str[i] # "/" THEN <<str>>
  ELSE LET i == CHOOSE i \in DOMAIN str :
                  str[i] = "/" /\ \A j \in 1..(i - 1) : str[j] # "/"
       IN  <<SubSeq(str, 1, i - 1)>> \o split(SubSeq(str, i + 1, Len(str)))

\* Array.prototype.pop
pop(arr) == arr[Len(arr)]

\* `${timestamp}_${sanitizedOriginalName}` for the original (odd url) and
\* `${timestamp}_thumb_${sanitizedOriginalName}` for the thumbnail (even url)
\* of a pair; the timestamp of the n-th upload is the n-th digit
fileName(url) ==
  IF url % 2 = 1 THEN <<Digits[(url + 1) \div 2], "_", "a.png">>
  ELSE <<Digits[url \div 2], "_", "thumb", "_", "a.png">>

\* categoryController.processAndUploadImage: the key of each upload
categoryKey(url) ==
  (IF url % 2 = 1 THEN <<"categories", "/">>
   ELSE <<"categories", "/", "thumbnails", "/">>) \o fileName(url)

\* productController.processAndUploadImage: the key of each upload; pathPrefix
\* is 'products' for req.files and 'products/colors' for the colors' images
productsColors == <<"products", "/", "colors">>
productKey(pathPrefix, storeId, url) ==
  pathPrefix \o <<"/">> \o toString(storeId)
    \o <<"/", IF url % 2 = 1 THEN "original" ELSE "thumbnails", "/">>
    \o fileName(url)

\* uploadToS3: `https://${process.env.R2_PUBLIC_DOMAIN}/${key}`
publicUrl(key) == <<"https:", "/", "/", "R2_PUBLIC_DOMAIN", "/">> \o key

\* mutant: the key is the URL without `https://${R2_PUBLIC_DOMAIN}/`
KeyOfUrl(url) == SubSeq(url, 6, Len(url))

\* url.split('/').pop(), the key the handlers pass to deleteFromS3
DeleteKey(url) == pop(split(url))

\* the urls put by a run of uploads that starts after first pairs and ends as
\* fail says: every pair before the failing one and, when the thumbnail's put
\* has failed, the original of that pair
UrlsPut(first, uploads, fail) ==
  UNION {{Pair(n).original, Pair(n).thumbnail} :
           n \in (first + 1)..(first + (IF fail.at = 0 THEN uploads ELSE fail.at - 1))}
    \cup (IF fail.stage = "thumbnail" THEN {Pair(first + fail.at).original} ELSE {})

\* the keys deleteFromS3 is called with by try { deleteFromS3(original);
\* deleteFromS3(thumbnail) } catch { .. }: the throw of the first call leaves
\* the try block before the second
PairCalls(pair, fails) ==
  (IF pair.original # 0 THEN {pair.original} ELSE {})
    \cup (IF pair.thumbnail # 0 /\ ~(pair.original # 0 /\ pair.original \in fails)
          THEN {pair.thumbnail} ELSE {})

\* the keys deleteFromS3 is called with by a loop of such try blocks
Calls(pairs, fails) == UNION {PairCalls(pairs[i], fails) : i \in DOMAIN pairs}

\* every key of the pairs
KeysOf(pairs) ==
  {pairs[i].original : i \in DOMAIN pairs} \cup {pairs[i].thumbnail : i \in DOMAIN pairs}

\* mutant: a failed resize or put is swallowed
UploadNeverThrows(fail) == FALSE

\* processAndUploadImage rethrows what sharp or uploadToS3 threw
UploadThrows(fail) == fail.at # 0

\* the pairs put in the object store by a run of uploads that ends as fail says
PairsPut(uploads, fail) == IF fail.at = 0 THEN uploads ELSE fail.at - 1

\* ------------------------------------------------------------ the store gate
Truthy(x) == x # NoId

\* middleware/validateStore.js: the outcome for the three places an id can be
validateStore(body, params, query) ==
  LET storeId == IF Truthy(body) THEN body
                 ELSE IF Truthy(params) THEN params ELSE query
  IN  IF ~Truthy(storeId)
        THEN [status |-> "400 Store ID is required", store |-> NoStore]
      ELSE IF storeId = Malformed   \* Store.findById rejects: the catch block
        THEN [status |-> "500 Error validating store", store |-> NoStore]
      ELSE IF stores[storeId].status # "live"
        THEN [status |-> "404 Store not found", store |-> NoStore]
      ELSE IF ~stores[storeId].isActive
        THEN [status |-> "403 Store is currently inactive", store |-> NoStore]
      ELSE [status |-> "next", store |-> storeId]

\* mutant: the storeId comparison is dropped, so a role held in any store counts
hasRequiredRoleAnyStore(storeRoles, store, requiredRoles) ==
  \E i \in 1..Len(storeRoles) : storeRoles[i].role \in requiredRoles

\* storeRoles.some(sr => sr.storeId === store && requiredRoles.includes(sr.role))
hasRequiredRole(storeRoles, store, requiredRoles) ==
  \E i \in 1..Len(storeRoles) :
    storeRoles[i].storeId = store /\ storeRoles[i].role \in requiredRoles

\* mutant: only superadmin bypasses the store-role check
authorizeStoreNoAdminBypass(reqUser, reqStore, requiredRoles) ==
  IF reqUser.id = NoUser THEN "401 Authentication required"
  ELSE IF reqStore = NoStore THEN "400 Store context is required"
  ELSE IF reqUser.role = "superadmin" THEN "next"
  ELSE IF ~users[reqUser.id].exists THEN "404 User not found"
  ELSE IF ~hasRequiredRole(users[reqUser.id].storeRoles, reqStore, requiredRoles)
    THEN "403 You do not have the required permissions for this store"
  ELSE "next"

\* mutant: the role list is taken from the token instead of the User record
authorizeStoreFromToken(reqUser, reqStore, requiredRoles) ==
  IF reqUser.id = NoUser THEN "401 Authentication required"
  ELSE IF reqStore = NoStore THEN "400 Store context is required"
  ELSE IF reqUser.role = "superadmin" THEN "next"
  ELSE IF reqUser.role = "admin" THEN "next"
  ELSE IF ~hasRequiredRole(issued[reqUser.id], reqStore, requiredRoles)
    THEN "403 You do not have the required permissions for this store"
  ELSE "next"

\* middleware/storeAuthorization.js: reqUser is what the auth middleware took
\* from the token ([id, role]; id NoUser when req.user is unset), reqStore what
\* validateStore attached
authorizeStore(reqUser, reqStore, requiredRoles) ==
  IF reqUser.id = NoUser THEN "401 Authentication required"
  ELSE IF reqStore = NoStore THEN "400 Store context is required"
  ELSE IF reqUser.role = "superadmin" THEN "next"
  ELSE IF reqUser.role = "admin" THEN "next"
  ELSE IF ~users[reqUser.id].exists THEN "404 User not found"
  ELSE IF ~hasRequiredRole(users[reqUser.id].storeRoles, reqStore, requiredRoles)
    THEN "403 You do not have the required permissions for this store"
  ELSE "next"

\* middleware/auth.js: req.user = { id, role, ... } decoded from the token
reqUserOf(u) == [id |-> u, role |-> tokens[u].role]

\* A store route arrives with a valid token; validateStore runs first.
ValidateStore(p, op, u, body, params, query) ==
  /\ Free(p)
  /\ tokens[u] # NoToken
  /\ LET r == validateStore(body, params, query)
         q == [IdleReq EXCEPT !.op = op, !.user = u]
     IN  reqs' = [reqs EXCEPT ![p] =
                    IF r.status = "next"
                    THEN [q EXCEPT !.pc = "authorize", !.store = r.store]
                    ELSE Response(q, r.status)]
  /\ UNCHANGED <<stores, nextStore, users, tokens, issued, probe, catalog>>

\* authorizeStore(requiredRoles) runs next, against the live User record.
AuthorizeStore(p) ==
  /\ reqs[p].pc = "authorize"
  /\ LET st == authorizeStore(reqUserOf(reqs[p].user), reqs[p].store,
                              RequiredRoles(reqs[p].op))
     IN  IF st = "next"
           THEN reqs' = [reqs EXCEPT ![p].pc = "handler"]
         ELSE Respond(p, st)
  /\ UNCHANGED <<stores, nextStore, users, tokens, issued, probe, catalog>>

\* GET /api/categories and the other public reads: validateStore, then a read.
ValidateStoreProbe(body, params, query) ==
  /\ probe # NotKept
  /\ probe' = [body |-> body, params |-> params, query |-> query,
               out |-> validateStore(body, params, query)]
  /\ UNCHANGED <<stores, nextStore, users, tokens, issued, reqs, catalog>>


\* ------------------------------------------------------------ authController
\* register (POST /api/auth/register, public): the new user is a customer,
\* seeded with one StoreRole when storeId and storeRole are given; the token
\* returned carries the role list.
register(u, storeId, storeRole) ==
  /\ ~users[u].exists
  /\ LET roles == IF storeId # NoStore
                  THEN <<[storeId |-> storeId, role |-> storeRole]>> ELSE <<>>
     IN  /\ users' = [users EXCEPT ![u] =
                        [exists |-> TRUE, role |-> "customer", storeRoles |-> roles]]
         /\ tokens' = [tokens EXCEPT ![u] = [role |-> "customer"]]
         /\ issued' = IF issued = NotKept THEN NotKept ELSE [issued EXCEPT ![u] = roles]
  /\ UNCHANGED <<stores, nextStore, reqs, probe, catalog>>

\* ------------------------------------------------------------ storeController
\* $push of one entry at the end of a user's storeRoles
PushRole(storeRoles, storeId, role) ==
  Append(storeRoles, [storeId |-> storeId, role |-> role])

\* $pull { storeRoles: { storeId } }
PullStore(storeRoles, storeId) == FilterOutStore(storeRoles, storeId)

NullEntry == [storeId |-> NoStore, role |-> "null"]

\* $set "storeRoles.<idx>.role": MongoDB writes the element at that position of
\* the stored array, extending the array (null padding) when it is shorter
SetRoleAt(storeRoles, idx, role) ==
  IF idx <= Len(storeRoles) THEN [storeRoles EXCEPT ![idx].role = role]
  ELSE [i \in 1..idx |->
          IF i <= Len(storeRoles) THEN storeRoles[i]
          ELSE IF i < idx THEN NullEntry
          ELSE [storeId |-> NoStore, role |-> role]]

\* { name: { $regex: new RegExp(`^${name}$`, 'i') } } for a name without
\* characters special to a regular expression
NameMatches(name, other) == toLowerCase(name) = toLowerCase(other)

\* Store.findOne({ $or: [{ name: regex }, { slug }] }) of createStore
storeExists(name) ==
  \E s \in StoreIds :
    /\ stores[s].status = "live"
    /\ NameMatches(name, stores[s].name) \/ stores[s].slug = slug(name)

\* Store.findOne({ name: regex, _id: { $ne: store._id } }) of updateStore
nameExists(name, id) ==
  \E s \in StoreIds \ {id} :
    stores[s].status = "live" /\ NameMatches(name, stores[s].name)

\* slug: { unique: true }: the write of a slug for document self is refused
\* when another document has it
DuplicateSlug(docs, aSlug, self) ==
  \E s \in StoreIds \ {self} : docs[s].status = "live" /\ docs[s].slug = aSlug

\* createStore of a request without files, up to Store.create: the store
\* exists, active, with a new id, the name and its slug
createStore(p, u, name) ==
  /\ Free(p)
  /\ tokens[u] # NoToken
  /\ nextStore < MaxStores
  /\ LET id == nextStore + 1
         r == [IdleReq EXCEPT !.op = "createStore", !.user = u]
     IN  IF storeExists(name)
           THEN /\ reqs' = [reqs EXCEPT ![p] =
                              [Response(r, "400 Store name already exists")
                                 EXCEPT !.storeName = name]]
                /\ UNCHANGED <<stores, nextStore>>
         ELSE IF DuplicateSlug(stores, slug(name), id)
           THEN /\ reqs' = [reqs EXCEPT ![p] =
                              [Response(r, "500 Server error")
                                 EXCEPT !.storeName = name]]
                /\ UNCHANGED <<stores, nextStore>>
         ELSE /\ stores' = [stores EXCEPT ![id] =
                              [status |-> "live", isActive |-> TRUE, name |-> name,
                               slug |-> slug(name), logo |-> 0]]
              /\ nextStore' = id
              /\ reqs' = [reqs EXCEPT ![p] =
                            [r EXCEPT !.pc = "cs_push", !.store = id]]
  /\ UNCHANGED <<users, tokens, issued, probe, catalog>>

\* createStore, User.findByIdAndUpdate($push store_admin) and the 201; when
\* the update rejects (pushOk false) the catch block answers 500
createStorePush(p, pushOk) ==
  /\ reqs[p].pc = "cs_push"
  /\ LET u == reqs[p].user
     IN  /\ Len(users[u].storeRoles) < MaxRoleEntries
         /\ users' = [users EXCEPT ![u].storeRoles =
                        IF users[u].exists /\ pushOk
                        THEN PushRole(@, reqs[p].store, "store_admin") ELSE @]
  /\ Respond(p, IF pushOk THEN "201 Store created successfully"
                 ELSE "500 Server error")
  /\ UNCHANGED <<stores, nextStore, tokens, issued, probe, catalog>>

\* storeController.processAndUploadImage: the key of the one upload
storeKey(url) == <<"stores", "/", "logos", "/">> \o fileName(url)

\* updateStore: acts on the store named by req.params.id. name <<>> is no name
\* given; logoFile is 1 when req.files has a logo, which is then replaced:
\* deleteFromS3 of the old one (it throws when deleteThrows), the resize and
\* the put of the new one (fail), then store.save() with the pre-save hook
\* that derives the slug of a modified name
updateStore(p, id, isActive, name, logoFile, deleteThrows, fail) ==
  /\ reqs[p].pc = "handler" /\ reqs[p].op = "updateStore"
  /\ nextImage + logoFile <= MaxImages
  /\ fail \in CleanFailures(logoFile)
  /\ IF id = Malformed
       THEN /\ Respond(p, "500 Server error")
            /\ UNCHANGED <<stores, nextImage, bucket>>
     ELSE IF stores[id].status # "live"
       THEN /\ Respond(p, "404 Store not found")
            /\ UNCHANGED <<stores, nextImage, bucket>>
     ELSE IF name # <<>> /\ name # stores[id].name /\ nameExists(name, id)
       THEN /\ reqs' = [reqs EXCEPT ![p] =
                          [Response(@, "400 Store name already exists")
                             EXCEPT !.id = id, !.storeName = name]]
            /\ UNCHANGED <<stores, nextImage, bucket>>
     ELSE LET store == stores[id]
              replaces == logoFile = 1 /\ store.logo # 0
              old == Pair(store.logo).original
              new == nextImage + 1
              renamed == name # <<>> /\ name # store.name
              r == [Response(reqs[p], "500 Server error")
                      EXCEPT !.id = id, !.storeName = name, !.files = logoFile,
                             !.image = store.logo, !.upload = fail]
          IN  IF replaces /\ deleteThrows
                THEN /\ reqs' = [reqs EXCEPT ![p] = [r EXCEPT !.fails = {old}]]
                     /\ UNCHANGED <<stores, nextImage, bucket>>
              ELSE IF UploadThrows(fail)
                THEN /\ reqs' = [reqs EXCEPT ![p] = r]
                     /\ bucket' = IF replaces
                                  THEN bucket \ {DeleteKey(publicUrl(storeKey(old)))}
                                  ELSE bucket
                     /\ UNCHANGED <<stores, nextImage>>
              ELSE /\ bucket' =
                        ((IF replaces
                          THEN bucket \ {DeleteKey(publicUrl(storeKey(old)))}
                          ELSE bucket)
                         \cup (IF logoFile = 1 THEN {storeKey(Pair(new).original)}
                               ELSE {}))
                   /\ nextImage' = nextImage + logoFile
                   /\ IF renamed /\ DuplicateSlug(stores, slug(name), id)
                        THEN /\ reqs' = [reqs EXCEPT ![p] = r]
                             /\ UNCHANGED stores
                      ELSE /\ stores' = [stores EXCEPT
                                  ![id].isActive = isActive,
                                  ![id].name = IF renamed THEN name ELSE @,
                                  ![id].slug = IF renamed THEN slug(name) ELSE @,
                                  ![id].logo = IF logoFile = 1 THEN new ELSE @]
                           /\ reqs' = [reqs EXCEPT ![p] =
                                 [r EXCEPT !.resp = "200 Store updated successfully"]]
  /\ UNCHANGED <<nextStore, users, tokens, issued, probe, categories, nextCategory,
                 products, nextProduct>>

\* deleteStore, up to User.updateMany($pull): the roles of store req.params.id
\* are removed from every user
deleteStore(p, id) ==
  /\ reqs[p].pc = "handler" /\ reqs[p].op = "deleteStore"
  /\ IF id = Malformed
       THEN /\ Respond(p, "500 Server error")
            /\ UNCHANGED users
     ELSE IF stores[id].status # "live"
       THEN /\ Respond(p, "404 Store not found")
            /\ UNCHANGED users
     ELSE /\ users' = [u \in UserIds |->
                         [users[u] EXCEPT !.storeRoles = PullStore(@, id)]]
          /\ reqs' = [reqs EXCEPT ![p] = [IdleReq EXCEPT !.pc = "ds_delete", !.op = reqs[p].op, !.id = id]]
  /\ UNCHANGED <<stores, nextStore, tokens, issued, probe, catalog>>

\* deleteStore, store.deleteOne() and the 200
deleteStoreDelete(p) ==
  /\ reqs[p].pc = "ds_delete"
  /\ stores' = [stores EXCEPT ![reqs[p].id].status = "deleted"]
  /\ Respond(p, "200 Store deleted successfully")
  /\ UNCHANGED <<nextStore, users, tokens, issued, probe, catalog>>


\* manageStaffRole, the two reads: the store req.params.id, the user
\* req.body.userId, and the index of the user's entry for that store
manageStaffRole(p, id, userId, role) ==
  /\ reqs[p].pc = "handler" /\ reqs[p].op = "manageStaffRole"
  /\ IF id = Malformed THEN Respond(p, "500 Server error")
     ELSE IF stores[id].status # "live" THEN Respond(p, "404 Store not found")
     ELSE IF ~users[userId].exists THEN Respond(p, "404 User not found")
     ELSE /\ reqs' = [reqs EXCEPT ![p] =
                        [IdleReq EXCEPT !.pc = "ms_save", !.op = reqs[p].op, !.id = id, !.target = userId,
                                        !.role = role, !.stale = FALSE,
                                        !.idx = FindIndex(users[userId].storeRoles, id)]]
  /\ UNCHANGED <<stores, nextStore, users, tokens, issued, probe, catalog>>

\* what user.save() writes for manageStaffRole: the role of element idx when an
\* entry was found (refused when __v moved), a pushed entry otherwise
manageStaffRoleWrite(storeRoles, idx, storeId, role) ==
  IF idx # 0 THEN SetRoleAt(storeRoles, idx, role)
  ELSE PushRole(storeRoles, storeId, role)

\* manageStaffRole, user.save() and the response
manageStaffRoleSave(p) ==
  /\ reqs[p].pc = "ms_save"
  /\ LET r == reqs[p]
         u == r.target
     IN  IF r.idx # 0 /\ r.stale
           THEN /\ Respond(p, "500 Server error")
                /\ UNCHANGED users
         ELSE /\ r.idx = 0 => Len(users[u].storeRoles) < MaxRoleEntries
              /\ users' = [users EXCEPT ![u].storeRoles =
                             manageStaffRoleWrite(@, r.idx, r.id, r.role)]
              /\ reqs' = [IF r.idx = 0 THEN MarkStale(reqs, u, p) ELSE reqs
                            EXCEPT ![p] = Response(r, "200 Staff role updated successfully")]
  /\ UNCHANGED <<stores, nextStore, tokens, issued, probe, catalog>>

\* removeStaffRole, the read: the user req.params.userId, and the role list
\* without the entries of store req.params.id
removeStaffRole(p, id, userId) ==
  /\ reqs[p].pc = "handler" /\ reqs[p].op = "removeStaffRole"
  /\ IF ~users[userId].exists THEN Respond(p, "404 User not found")
     ELSE /\ reqs' = [reqs EXCEPT ![p] =
                        [IdleReq EXCEPT !.pc = "rs_save", !.op = reqs[p].op, !.id = id, !.target = userId,
                                        !.stale = FALSE,
                                        !.doc = FilterOutStore(users[userId].storeRoles, id),
                                        !.idx = IF FilterOutStore(users[userId].storeRoles, id)
                                                   = users[userId].storeRoles THEN 0 ELSE 1]]
  /\ UNCHANGED <<stores, nextStore, users, tokens, issued, probe, catalog>>

\* removeStaffRole, user.save() and the response: nothing is written when the
\* filter removed nothing; otherwise the whole array is set, refused when __v
\* moved since the read
removeStaffRoleSave(p) ==
  /\ reqs[p].pc = "rs_save"
  /\ LET r == reqs[p]
         u == r.target
     IN  IF r.idx = 0
           THEN /\ Respond(p, "200 Staff role removed successfully")
                /\ UNCHANGED users
         ELSE IF r.stale
           THEN /\ Respond(p, "500 Server error")
                /\ UNCHANGED users
         ELSE /\ users' = [users EXCEPT ![u].storeRoles = r.doc]
              /\ reqs' = [MarkStale(reqs, u, p)
                            EXCEPT ![p] = Response(r, "200 Staff role removed successfully")]
  /\ UNCHANGED <<stores, nextStore, tokens, issued, probe, catalog>>


\* getStoreStaff: User.find({ 'storeRoles.storeId': req.params.id }), a read
getStoreStaff(p, id) ==
  /\ reqs[p].pc = "handler" /\ reqs[p].op = "getStoreStaff"
  /\ reqs' = [reqs EXCEPT ![p] =
                 [Response(@, "200 Store staff fetched successfully") EXCEPT !.id = id]]
  /\ UNCHANGED <<stores, nextStore, users, tokens, issued, probe, catalog>>

\* ------------------------------------------------------------ categoryController
\* Category.findOne({ name, storeId, _id: { $ne: exceptId } })
CategoryNamed(name, storeId, exceptId) ==
  \E c \in CatIds :
    /\ c # exceptId
    /\ categories[c].status = "live"
    /\ categories[c].name = name /\ categories[c].storeId = storeId

\* Category.findOne({ _id: id, storeId })
CategoryInStore(id, storeId) ==
  id \in CatIds /\ categories[id].status = "live" /\ categories[id].storeId = storeId

\* mutant: the collection has no unique index
NoUniqueIndex(cats, name, storeId, self) == FALSE

\* categorySchema.index({ name: 1, storeId: 1 }, { unique: true }): the write of
\* (name, storeId) for document self is refused when another document has it
DuplicateKey(cats, name, storeId, self) ==
  \E c \in CatIds \ {self} :
    cats[c].status = "live" /\ cats[c].name = name /\ cats[c].storeId = storeId

\* the number of createCategory handlers past their reads
CreatesInFlight == Cardinality({q \in Slots : reqs[q].pc = "cc_create"})

\* Joi: parentCategoryId is required when isSubcategory is true and forbidden
\* otherwise; isSubcategory is "absent", "false" or "true"
SubInputs == {"absent", "false", "true"}
parentCategoryIdRule(isSubcategory, parent) ==
  (isSubcategory = "true") <=> (parent # NoId)

\* createCategory, the reads: the name in this store, the parent in this store
createCategory(p, name, isSubcategory, parent) ==
  /\ reqs[p].pc = "handler" /\ reqs[p].op = "createCategory"
  /\ nextCategory + CreatesInFlight < MaxCategories
  /\ IF ~parentCategoryIdRule(isSubcategory, parent)
       THEN Respond(p, IF isSubcategory = "true"
                       THEN "400 \"parentCategoryId\" is required"
                       ELSE "400 \"parentCategoryId\" is not allowed")
     ELSE IF CategoryNamed(name, reqs[p].store, NoId)
       THEN reqs' = [reqs EXCEPT ![p] =
                       [Response(@, "400 Category already exists in this store")
                          EXCEPT !.name = name]]
     ELSE IF parent # NoId /\ ~CategoryInStore(parent, reqs[p].store)
       THEN Respond(p, "400 Parent category not found in this store")
     ELSE reqs' = [reqs EXCEPT ![p] =
                     [IdleReq EXCEPT !.pc = "cc_create", !.op = reqs[p].op,
                                     !.store = reqs[p].store, !.name = name,
                                     !.isSubcategory = isSubcategory,
                                     !.parent = parent]]
  /\ UNCHANGED <<registry, catalog>>

\* createCategory, the upload of req.file (file = 1 when there is one),
\* Category.create and the response
createCategoryCreate(p, file, fail) ==
  /\ reqs[p].pc = "cc_create"
  /\ nextImage + file <= MaxImages
  /\ LET r == reqs[p]
         id == nextCategory + 1
         put == nextImage + PairsPut(file, fail)
     IN  IF UploadThrows(fail)
           THEN /\ reqs' = [reqs EXCEPT ![p] =
                              [Response(r, "500 Error processing image")
                                 EXCEPT !.upload = fail]]
                /\ UNCHANGED <<categories, nextCategory, nextImage>>
         ELSE IF DuplicateKey(categories, r.name, r.store, NoId)
           THEN /\ reqs' = [reqs EXCEPT ![p] =
                              [Response(r, "500 Server error")
                                 EXCEPT !.name = r.name, !.files = file]]
                /\ nextImage' = put
                /\ UNCHANGED <<categories, nextCategory>>
         ELSE /\ categories' = [categories EXCEPT ![id] =
                                  [status |-> "live", name |-> r.name,
                                   storeId |-> r.store,
                                   image |-> IF file = 1 THEN put ELSE 0,
                                   isSubcategory |-> r.isSubcategory = "true",
                                   parentCategory |->
                                     IF r.isSubcategory = "true" THEN r.parent
                                     ELSE NoId]]
              /\ nextCategory' = id
              /\ nextImage' = put
              /\ reqs' = [reqs EXCEPT ![p] =
                            [Response(r, "201 Category created successfully")
                               EXCEPT !.name = r.name, !.id = id, !.upload = fail]]
  /\ bucket' = bucket \cup {categoryKey(k) : k \in UrlsPut(nextImage, file, fail)}
  /\ UNCHANGED <<registry, products, nextProduct>>

\* updateCategory, the reads: the category req.params.id in this store, the new
\* name in this store, the parent in this store; name "none" is no name given
updateCategory(p, id, name, isSubcategory, parent) ==
  /\ reqs[p].pc = "handler" /\ reqs[p].op = "updateCategory"
  /\ IF ~parentCategoryIdRule(isSubcategory, parent)
       THEN Respond(p, IF isSubcategory = "true"
                       THEN "400 \"parentCategoryId\" is required"
                       ELSE "400 \"parentCategoryId\" is not allowed")
     ELSE IF id = Malformed THEN Respond(p, "500 Server error")
     ELSE IF ~CategoryInStore(id, reqs[p].store)
       THEN Respond(p, "404 Category not found in this store")
     ELSE IF name # "none" /\ name # categories[id].name
               /\ CategoryNamed(name, reqs[p].store, id)
       THEN Respond(p, "400 Category name already exists in this store")
     ELSE IF parent # NoId /\ ~CategoryInStore(parent, reqs[p].store)
       THEN Respond(p, "400 Parent category not found in this store")
     ELSE reqs' = [reqs EXCEPT ![p] =
                     [IdleReq EXCEPT !.pc = "uc_save", !.op = reqs[p].op,
                                     !.store = reqs[p].store, !.id = id,
                                     !.image = categories[id].image,
                                     !.isSubcategory = isSubcategory,
                                     !.parent = parent,
                                     !.name = IF name = categories[id].name
                                              THEN "none" ELSE name]]
  /\ UNCHANGED <<registry, catalog>>

\* updateCategory, the image replacement when there is a req.file (file = 1):
\* deleteFromS3 of the image and the thumbnail the category was read with, which
\* throws for the keys in fails, then the upload, all in one try block; then
\* category.save() and the response
updateCategorySave(p, file, fail, fails) ==
  /\ reqs[p].pc = "uc_save"
  /\ nextImage + file <= MaxImages
  /\ fails \subseteq (IF file = 1 /\ reqs[p].image # 0
                       THEN KeysOf(<<Pair(reqs[p].image)>>) ELSE {})
  /\ LET r == reqs[p]
         deleteThrows == file = 1 /\ r.image # 0 /\ PairFails(Pair(r.image), fails)
         put == nextImage + PairsPut(file, fail)
     IN  IF deleteThrows
           THEN /\ reqs' = [reqs EXCEPT ![p] =
                              [Response(r, "500 Error processing image")
                                 EXCEPT !.id = r.id, !.image = r.image,
                                        !.fails = fails]]
                /\ UNCHANGED <<categories, nextImage>>
         ELSE IF UploadThrows(fail)
           THEN /\ reqs' = [reqs EXCEPT ![p] =
                              [Response(r, "500 Error processing image")
                                 EXCEPT !.id = r.id, !.image = r.image,
                                        !.upload = fail]]
                /\ UNCHANGED <<categories, nextImage>>
         ELSE IF categories[r.id].status # "live"
           THEN /\ Respond(p, "500 Server error")
                /\ nextImage' = put
                /\ UNCHANGED categories
         ELSE IF r.name # "none"
                   /\ DuplicateKey(categories, r.name, categories[r.id].storeId, r.id)
           THEN /\ reqs' = [reqs EXCEPT ![p] =
                              [Response(r, "500 Server error") EXCEPT !.files = file]]
                /\ nextImage' = put
                /\ UNCHANGED categories
         ELSE /\ categories' = [categories EXCEPT
                     ![r.id].name = IF r.name # "none" THEN r.name ELSE @,
                     ![r.id].image = IF file = 1 THEN put ELSE @,
                     ![r.id].isSubcategory =
                        IF r.isSubcategory = "absent" THEN @
                        ELSE r.isSubcategory = "true",
                     ![r.id].parentCategory =
                        IF r.isSubcategory = "true" THEN r.parent ELSE @]
              /\ nextImage' = put
              /\ reqs' = [reqs EXCEPT ![p] =
                            [Response(r, "200 Category updated")
                               EXCEPT !.id = r.id, !.image = r.image, !.files = file]]
  /\ LET r == reqs[p]
         old == IF file = 1 /\ r.image # 0 THEN <<Pair(r.image)>> ELSE <<>>
         deleted == {DeleteKey(publicUrl(categoryKey(k))) : k \in Calls(old, fails) \ fails}
         put == IF PairFails(IF old = <<>> THEN NoPair ELSE old[1], fails) THEN {}
                ELSE {categoryKey(k) : k \in UrlsPut(nextImage, file, fail)}
     IN  bucket' = (bucket \ deleted) \cup put
  /\ UNCHANGED <<registry, nextCategory, products, nextProduct>>

\* deleteCategory, the read
deleteCategory(p, id) ==
  /\ reqs[p].pc = "handler" /\ reqs[p].op = "deleteCategory"
  /\ IF id = Malformed THEN Respond(p, "500 Server error")
     ELSE IF ~CategoryInStore(id, reqs[p].store)
       THEN Respond(p, "404 Category not found in this store")
     ELSE reqs' = [reqs EXCEPT ![p] =
                     [IdleReq EXCEPT !.pc = "dc_delete", !.op = reqs[p].op,
                                     !.store = reqs[p].store, !.id = id,
                                     !.image = categories[id].image]]
  /\ UNCHANGED <<registry, catalog>>

\* deleteCategory, the deletions of the image and the thumbnail the category
\* was read with, each in a try block of its own (deleteFromS3 throws for the
\* urls in fails, which is only logged), Category.deleteOne and the response
deleteCategoryDelete(p, fails) ==
  /\ reqs[p].pc = "dc_delete"
  /\ LET r == reqs[p]
         urls == IF r.image # 0 THEN KeysOf(<<Pair(r.image)>>) ELSE {}
     IN  /\ fails \subseteq urls
         /\ bucket' = bucket \ {DeleteKey(publicUrl(categoryKey(k))) : k \in urls \ fails}
         /\ reqs' = [reqs EXCEPT ![p] =
                       [Response(r, "200 Category was deleted successfully")
                          EXCEPT !.id = r.id, !.image = r.image, !.fails = fails]]
  /\ categories' = [categories EXCEPT ![reqs[p].id] = NoCategory("deleted")]
  /\ UNCHANGED <<registry, nextCategory, products, nextProduct, nextImage>>

\* ------------------------------------------------------------ productController
\* ObjectId.isValid
isValidObjectId(id) == id # Malformed

RECURSIVE FilterValid(_)
\* categories.split(',').filter(isValidObjectId).map(createFromHexString)
FilterValid(ids) ==
  IF ids = <<>> THEN <<>>
  ELSE (IF isValidObjectId(Head(ids)) THEN <<Head(ids)>> ELSE <<>>)
         \o FilterValid(Tail(ids))

\* Category.find({ _id: { $in: categoryIds }, storeId }).length
storeCategoriesLength(categoryIds, storeId) ==
  Cardinality({c \in CatIds :
                 /\ \E i \in DOMAIN categoryIds : categoryIds[i] = c
                 /\ CategoryInStore(c, storeId)})

\* the pairs of k uploads made one after another, the first being upload n + 1
NewPairs(n, k) == [i \in 1..k |-> Pair(n + i)]

\* Product.findOne({ _id: id, storeId })
ProductInStore(id, storeId) ==
  id \in ProductIds /\ products[id].status = "live" /\ products[id].storeId = storeId

\* mutant: the collection has no unique index on (sku, storeId)
NoSkuIndex(sku, storeId) == FALSE

\* productSchema.index({ sku: 1, storeId: 1 }, { unique: true })
DuplicateSku(sku, storeId) ==
  \E i \in ProductIds :
    products[i].status = "live" /\ products[i].sku = sku /\ products[i].storeId = storeId

\* createProduct, up to the category check; bodySku is the sku the request
\* body carries (NoSku when it has none), cats the requested id list, files
\* the number of uploaded files, color "plain" (one color without an image) or
\* "image" (one color with an image that is among the files)
createProduct(p, bodySku, cats, files, color) ==
  /\ reqs[p].pc = "handler" /\ reqs[p].op = "createProduct"
  /\ nextProduct < MaxProducts
  /\ LET categoryIds == FilterValid(cats)
     IN  IF bodySku # NoSku
           THEN reqs' = [reqs EXCEPT ![p] =
                           [Response(@, "400 \"sku\" is not allowed")
                              EXCEPT !.sku = bodySku]]
         ELSE IF storeCategoriesLength(categoryIds, reqs[p].store) # Len(categoryIds)
           THEN Respond(p, "400 One or more categories not found in this store")
         ELSE reqs' = [reqs EXCEPT ![p] =
                         [IdleReq EXCEPT !.pc = "cp_create", !.op = reqs[p].op,
                                         !.store = reqs[p].store, !.cats = cats,
                                         !.doc = categoryIds, !.files = files,
                                         !.color = color]]
  /\ UNCHANGED <<registry, catalog>>

\* the colors of the request that have an image among the files: none of one
\* color ("plain"), one of one ("image"), two of two ("images")
ColorImages(color) == IF color = "image" THEN 1 ELSE IF color = "images" THEN 2 ELSE 0

\* createProduct, generateSKU with the n-th value of Math.random, the uploads
\* (req.files in order, then the colors' images), Product.create and the
\* response
createProductCreate(p, fail, n) ==
  /\ reqs[p].pc = "cp_create"
  /\ LET r == reqs[p]
         id == nextProduct + 1
         sku == generateSKU(r.store, n)
         uploads == r.files + ColorImages(r.color)
     IN  /\ nextImage + uploads <= MaxImages
         /\ fail \in UploadFailures(uploads)
         /\ nextImage' = nextImage + PairsPut(uploads, fail)
         /\ IF UploadThrows(fail)
              THEN /\ reqs' = [reqs EXCEPT ![p] =
                                 [Response(r, "500 Server error") EXCEPT !.upload = fail]]
                   /\ UNCHANGED <<products, nextProduct>>
            ELSE IF DuplicateSku(sku, r.store)
              THEN /\ reqs' = [reqs EXCEPT ![p] =
                                 [Response(r, "500 Server error")
                                    EXCEPT !.sku = sku, !.files = uploads]]
                   /\ UNCHANGED <<products, nextProduct>>
            ELSE /\ products' = [products EXCEPT ![id] =
                      [status |-> "live", storeId |-> r.store, sku |-> sku,
                       categories |-> r.doc,
                       name |-> "Boot", description |-> "Leather", price |-> 1,
                       featured |-> FALSE,
                       images |-> NewPairs(nextImage, r.files),
                       colors |-> IF ColorImages(r.color) = 0 THEN <<NoPair>>
                                  ELSE [i \in 1..ColorImages(r.color) |->
                                          Pair(nextImage + r.files + i)]]]
                 /\ nextProduct' = id
                 /\ reqs' = [reqs EXCEPT ![p] =
                               [Response(r, "201 Product created successfully")
                                  EXCEPT !.id = id, !.upload = fail]]
         /\ bucket' = bucket \cup
              {productKey(IF k <= 2 * (nextImage + r.files) THEN <<"products">>
                          ELSE productsColors, r.store, k) :
                 k \in UrlsPut(nextImage, uploads, fail)}
  /\ UNCHANGED <<registry, categories, nextCategory>>

\* mutant: the uploaded pairs replace the array
ImagesReplaced(images, pushed) == pushed

\* what product.save() leaves in images: the pushed pairs go at the end
ImagesAfterPush(images, pushed) == images \o pushed

\* updateProduct, the reads: the product req.params.id in this store and, when
\* a categories list is given (cats not empty), the category check
updateProduct(p, id, bodySku, cats, files, fields) ==
  /\ reqs[p].pc = "handler" /\ reqs[p].op = "updateProduct"
  /\ LET categoryIds == FilterValid(cats)
     IN  IF bodySku # NoSku
           THEN reqs' = [reqs EXCEPT ![p] =
                           [Response(@, "400 \"sku\" is not allowed")
                              EXCEPT !.sku = bodySku]]
         ELSE IF id = Malformed THEN Respond(p, "500 Server error")
         ELSE IF ~ProductInStore(id, reqs[p].store)
           THEN Respond(p, "404 Product not found in this store")
         ELSE IF cats # <<>>
                   /\ storeCategoriesLength(categoryIds, reqs[p].store) # Len(categoryIds)
           THEN Respond(p, "400 One or more categories not found in this store")
         ELSE reqs' = [reqs EXCEPT ![p] =
                         [IdleReq EXCEPT !.pc = "up_save", !.op = reqs[p].op,
                                         !.store = reqs[p].store, !.id = id,
                                         !.cats = cats, !.doc = categoryIds,
                                         !.files = files, !.fields = fields]]
  /\ UNCHANGED <<registry, catalog>>

\* if (price): the number 0 of a JSON body is falsy, every string of a form,
\* "0" included, is truthy
PriceTruthy(price) == price.enc = "form" \/ (price.enc = "json" /\ price.n # 0)

\* updateProduct, the uploads in order, product.save() and the response
updateProductSave(p, fail) ==
  /\ reqs[p].pc = "up_save"
  /\ LET r == reqs[p]
     IN  /\ nextImage + r.files <= MaxImages
         /\ fail \in UploadFailures(r.files)
         /\ nextImage' = nextImage + PairsPut(r.files, fail)
         /\ IF UploadThrows(fail)
              THEN /\ reqs' = [reqs EXCEPT ![p] =
                                 [Response(r, "500 Server error") EXCEPT !.upload = fail]]
                   /\ UNCHANGED products
            ELSE IF products[r.id].status # "live"
              THEN /\ Respond(p, "500 Server error")
                   /\ UNCHANGED products
            ELSE /\ products' = [products EXCEPT
                      ![r.id].name = IF r.fields.name # "none" THEN r.fields.name ELSE @,
                      ![r.id].description =
                         IF r.fields.description # "none" THEN r.fields.description
                         ELSE @,
                      ![r.id].price =
                         IF PriceTruthy(r.fields.price) THEN r.fields.price.n ELSE @,
                      ![r.id].featured =
                         IF r.fields.featured # "absent" THEN r.fields.featured = "true"
                         ELSE @,
                      ![r.id].colors =
                         IF r.fields.colors.given THEN r.fields.colors.parsed ELSE @,
                      ![r.id].categories = IF r.cats # <<>> THEN r.doc ELSE @,
                      ![r.id].images = ImagesAfterPush(@, NewPairs(nextImage, r.files))]
                 /\ reqs' = [reqs EXCEPT ![p] =
                               [Response(r, "200 Product updated successfully")
                                  EXCEPT !.id = r.id, !.files = r.files,
                                         !.fields = r.fields, !.cats = r.cats,
                                         !.doc = r.doc,
                                         !.imgs = products[r.id].images]]
         /\ bucket' = bucket \cup
              {productKey(<<"products">>, r.store, k) :
                 k \in UrlsPut(nextImage, r.files, fail)}
  /\ UNCHANGED <<registry, categories, nextCategory, nextProduct>>

\* deleteProduct, the read
deleteProduct(p, id) ==
  /\ reqs[p].pc = "handler" /\ reqs[p].op = "deleteProduct"
  /\ IF id = Malformed THEN Respond(p, "500 Server error")
     ELSE IF ~ProductInStore(id, reqs[p].store)
       THEN Respond(p, "404 Product not found in this store")
     ELSE reqs' = [reqs EXCEPT ![p] =
                     [IdleReq EXCEPT !.pc = "dp_delete", !.op = reqs[p].op,
                                     !.store = reqs[p].store, !.id = id,
                                     !.imgs = products[id].images,
                                     !.cimgs = products[id].colors]]
  /\ UNCHANGED <<registry, catalog>>

RECURSIVE CollectFailed(_, _)
\* try { deleteFromS3 x 2 } catch { failedImageDeletions.push(imageObj) }, in order
CollectFailed(pairs, fails) ==
  IF pairs = <<>> THEN <<>>
  ELSE (IF PairFails(Head(pairs), fails) THEN <<Head(pairs)>> ELSE <<>>)
         \o CollectFailed(Tail(pairs), fails)

\* mutant: the catch block of the colors loop collects nothing
CollectNothing(pairs, fails) == <<>>

\* the second loop of deleteProduct, over product.colors
CollectFailedColors(pairs, fails) == CollectFailed(pairs, fails)

\* deleteProduct, the two deletion loops, Product.deleteOne and the response
deleteProductDelete(p, fails) ==
  /\ reqs[p].pc = "dp_delete"
  /\ fails \subseteq (KeysOf(reqs[p].imgs) \cup KeysOf(reqs[p].cimgs)) \ {0}
  /\ LET r == reqs[p]
         failedImageDeletions ==
           CollectFailed(r.imgs, fails) \o CollectFailedColors(r.cimgs, fails)
     IN  /\ products' = [products EXCEPT ![r.id] = NoProduct("deleted")]
         /\ reqs' = [reqs EXCEPT ![p] =
                       [Response(r, IF failedImageDeletions = <<>>
                                    THEN "200 Product and all associated images deleted successfully"
                                    ELSE "200 Product deleted successfully, but some images could not be deleted")
                          EXCEPT !.id = r.id, !.imgs = r.imgs, !.cimgs = r.cimgs,
                                 !.fails = fails, !.failed = failedImageDeletions,
                                 !.called = Calls(r.imgs \o r.cimgs, fails)]]
         /\ bucket' = bucket \
              ({DeleteKey(publicUrl(productKey(<<"products">>, r.store, k))) :
                  k \in Calls(r.imgs, fails) \ fails}
               \cup {DeleteKey(publicUrl(productKey(productsColors, r.store, k))) :
                       k \in Calls(r.cimgs, fails) \ fails})
  /\ UNCHANGED <<registry, categories, nextCategory, nextProduct, nextImage>>

\* The object-store work of a handler, await by await. The slot's assets holds
\* the stage of every asset the handler has started on: an upload goes through
\* "resize" (sharp), "original" and "thumbnail" (the two uploadToS3), a
\* deletion through "original" and "thumbnail" (the two deleteFromS3).
AllDone(assets) == \A a \in DOMAIN assets : assets[a] = "done"

\* the assets a for loop with await inside goes through, one after another
LoopAssets(r) ==
  IF r.pc = "dp_delete"
    THEN Len(r.imgs) + Cardinality({i \in DOMAIN r.cimgs : r.cimgs[i] # NoPair})
  ELSE r.files

\* the assets handed to Promise.all(parsedColors.map(async ...))
MappedAssets(r) == IF r.pc = "cp_create" THEN ColorImages(r.color) ELSE 0

NextStage(r, stage) ==
  IF stage = "resize" THEN "original"
  ELSE IF stage = "original" THEN "thumbnail" ELSE "done"

\* the next iteration of a for loop: entered when the previous one is over
loopNext(p) ==
  /\ reqs[p].pc \in {"cp_create", "up_save", "dp_delete"}
  /\ reqs[p].pc # "dp_delete"
       => nextImage + LoopAssets(reqs[p]) + MappedAssets(reqs[p]) <= MaxImages
  /\ Len(reqs[p].assets) < LoopAssets(reqs[p])
  /\ AllDone(reqs[p].assets)
  /\ reqs' = [reqs EXCEPT ![p].assets =
                 Append(@, IF reqs[p].pc = "dp_delete" THEN "original" ELSE "resize")]
  /\ UNCHANGED <<registry, catalog>>

\* parsedColors.map(async ...): every callback runs up to its first await
mapStart(p) ==
  /\ reqs[p].pc = "cp_create"
  /\ nextImage + LoopAssets(reqs[p]) + MappedAssets(reqs[p]) <= MaxImages
  /\ Len(reqs[p].assets) = LoopAssets(reqs[p])
  /\ AllDone(reqs[p].assets)
  /\ MappedAssets(reqs[p]) > 0
  /\ reqs' = [reqs EXCEPT ![p].assets =
                 @ \o [i \in 1..MappedAssets(reqs[p]) |-> "resize"]]
  /\ UNCHANGED <<registry, catalog>>

\* an await of asset a is over and its next operation starts
assetStep(p, a) ==
  /\ reqs[p].pc \in {"cp_create", "up_save", "dp_delete"}
  /\ a \in DOMAIN reqs[p].assets
  /\ reqs[p].assets[a] # "done"
  /\ reqs' = [reqs EXCEPT ![p].assets[a] = NextStage(reqs[p], @)]
  /\ UNCHANGED <<registry, catalog>>

\* every asset of the handler is done
AssetsDone(r) ==
  Len(r.assets) = LoopAssets(r) + MappedAssets(r) /\ AllDone(r.assets)

\* Array.prototype.filter keeping the pairs that differ from imageUrl
RECURSIVE FilterOutImage(_, _)
FilterOutImage(images, imageUrl) ==
  IF images = <<>> THEN <<>>
  ELSE (IF Head(images) # imageUrl THEN <<Head(images)>> ELSE <<>>)
         \o FilterOutImage(Tail(images), imageUrl)

\* deleteProductImage, the reads: the product req.params.productId in this
\* store, the pair imageUrl among its images
deleteProductImage(p, id, imageUrl) ==
  /\ reqs[p].pc = "handler" /\ reqs[p].op = "deleteProductImage"
  /\ IF id = Malformed THEN Respond(p, "500 Server error")
     ELSE IF ~ProductInStore(id, reqs[p].store)
       THEN Respond(p, "404 Product not found in this store")
     ELSE IF ~\E i \in DOMAIN products[id].images : products[id].images[i] = imageUrl
       THEN Respond(p, "404 Image not found")
     ELSE reqs' = [reqs EXCEPT ![p] =
                     [IdleReq EXCEPT !.pc = "di_save", !.op = reqs[p].op,
                                     !.store = reqs[p].store, !.id = id,
                                     !.imgs = products[id].images,
                                     !.cimgs = <<imageUrl>>]]
  /\ UNCHANGED <<registry, catalog>>

\* deleteProductImage, the two deletions (a failure is only logged), the
\* filtered images, product.save() and the response
deleteProductImageSave(p, fails) ==
  /\ reqs[p].pc = "di_save"
  /\ fails \subseteq KeysOf(reqs[p].cimgs)
  /\ LET r == reqs[p]
     IN  IF products[r.id].status # "live"
           THEN /\ Respond(p, "500 Server error")
                /\ UNCHANGED products
         ELSE /\ products' = [products EXCEPT
                                ![r.id].images = FilterOutImage(r.imgs, r.cimgs[1])]
              /\ reqs' = [reqs EXCEPT ![p] =
                            [Response(r, "200 Image and thumbnail deleted successfully")
                               EXCEPT !.id = r.id, !.cimgs = r.cimgs,
                                      !.fails = fails,
                                      !.called = Calls(r.cimgs, fails)]]
         /\ bucket' = bucket \
              {DeleteKey(publicUrl(productKey(<<"products">>, r.store, k))) :
                 k \in Calls(r.cimgs, fails) \ fails}
  /\ UNCHANGED <<registry, categories, nextCategory, nextProduct, nextImage>>

\* ------------------------------------------------------------ specifications
NoProbe == [body |-> NoId, params |-> NoId, query |-> NoId,
            out |-> [status |-> "none", store |-> NoStore]]

\* User 1 is an account that exists before the run, with global role g (admin
\* and superadmin accounts are not created by this code); every other user
\* registers.
InitAccounts(g) ==
  /\ stores = [s \in StoreIds |-> NoStoreDoc]
  /\ nextStore = 0
  /\ users = [u \in UserIds |->
                [exists |-> u = 1, role |-> IF u = 1 THEN g ELSE "customer",
                 storeRoles |-> <<>>]]
  /\ tokens = [u \in UserIds |-> IF u = 1 THEN [role |-> g] ELSE NoToken]
  /\ reqs = [p \in Slots |-> IdleReq]

\* no category, no product, nothing uploaded
InitCatalogEmpty ==
  /\ categories = [c \in CatIds |-> NoCategory("none")]
  /\ nextCategory = 0
  /\ products = [i \in ProductIds |-> NoProduct("none")]
  /\ nextProduct = 0
  /\ nextImage = 0
  /\ bucket = {}

\* The users that register during the run; staff roles are managed for them.
Registrants == UserIds \ {1}

\* Spec: the gate and the staff registry, requests handled one at a time
\* (slot 1), the token history kept.
Init ==
  /\ \E g \in GlobalRoles : InitAccounts(g)
  /\ issued = [u \in UserIds |-> <<>>]
  /\ probe = NotKept
  /\ InitCatalogEmpty

Next ==
  \/ \E u \in UserIds, s \in 0..nextStore, r \in StoreRoleNames :
       (s = NoStore => r = "store_staff") /\ register(u, s, r)
  \/ \E op \in {"manageStaffRole", "removeStaffRole", "getStoreStaff"},
        u \in UserIds, query \in IdInputs :
       ValidateStore(1, op, u, NoId, NoId, query)
  \/ AuthorizeStore(1)
  \/ \E u \in UserIds : createStore(1, u, StoreName(nextStore + 1))
  \/ createStorePush(1, TRUE)
  \/ \E id \in StoreIds, u \in Registrants, r \in StoreRoleNames :
       manageStaffRole(1, id, u, r)
  \/ manageStaffRoleSave(1)
  \/ \E id \in StoreIds, u \in Registrants : removeStaffRole(1, id, u)
  \/ removeStaffRoleSave(1)
  \/ \E id \in StoreIds : getStoreStaff(1, id)

Spec == Init /\ [][Next]_vars

\* SpecVS: the life of the stores (created, deactivated, deleted) and
\* validateStore called with every combination of body, path and query id.
InitVS ==
  /\ \E g \in GlobalRoles : InitAccounts(g)
  /\ issued = NotKept
  /\ probe = NoProbe
  /\ InitCatalogEmpty

NextVS ==
  \/ \E body, params, query \in IdInputs : ValidateStoreProbe(body, params, query)
  \/ \E op \in {"updateStore", "deleteStore"}, query \in IdInputs :
       ValidateStore(1, op, 1, NoId, NoId, query)
  \/ AuthorizeStore(1)
  \/ createStore(1, 1, StoreName(nextStore + 1))
  \/ createStorePush(1, TRUE)
  \/ \E id \in StoreIds \cup {Malformed}, a \in BOOLEAN : updateStore(1, id, a, <<>>, 0, FALSE, NoFailure)
  \/ \E id \in StoreIds \cup {Malformed} : deleteStore(1, id)
  \/ deleteStoreDelete(1)

SpecVS == InitVS /\ [][NextVS]_vars

\* SpecCat: the category controller, two requests at a time, none with a file,
\* in stores that exist and are active; user 1 is store_admin of store 1 and store_manager of
\* the other stores.
InitCatalogAccounts ==
  /\ stores = [s \in StoreIds |-> LiveStore(s)]
  /\ nextStore = MaxStores
  /\ users = [u \in UserIds |->
                [exists |-> u = 1, role |-> "customer",
                 storeRoles |-> IF u = 1
                                THEN [s \in StoreIds |->
                                        [storeId |-> s,
                                         role |-> IF s = 1 THEN "store_admin"
                                                  ELSE "store_manager"]]
                                ELSE <<>>]]
  /\ tokens = [u \in UserIds |-> IF u = 1 THEN [role |-> "customer"] ELSE NoToken]
  /\ reqs = [p \in Slots |-> IdleReq]
  /\ issued = NotKept
  /\ probe = NotKept

InitCat == InitCatalogAccounts /\ InitCatalogEmpty

NextCat ==
  \/ \E p \in Slots, op \in CategoryOps, body \in StoreIds :
       ValidateStore(p, op, 1, body, NoId, NoId)
  \/ \E p \in Slots : AuthorizeStore(p)
  \/ \E p \in Slots, name \in CategoryNames, parent \in {NoId} \cup CatIds :
       createCategory(p, name, IF parent = NoId THEN "absent" ELSE "true", parent)
  \/ \E p \in Slots : createCategoryCreate(p, 0, NoFailure)
  \/ \E p \in Slots, id \in CatIds \cup {Malformed},
        name \in CategoryNames \cup {"none"}, parent \in {NoId} \cup CatIds :
       updateCategory(p, id, name, IF parent = NoId THEN "absent" ELSE "true", parent)
  \/ \E p \in Slots : updateCategorySave(p, 0, NoFailure, {})
  \/ \E p \in Slots, id \in CatIds \cup {Malformed} : deleteCategory(p, id)
  \/ \E p \in Slots : deleteCategoryDelete(p, {})

SpecCat == InitCat /\ [][NextCat]_vars

\* SpecProd: the product controller, one request at a time; category 1 is in
\* store 1, category 2 in store 2 or not there at all; an upload fails before
\* its first put or not at all.
CatInputs == CatIds \cup {Malformed}
\* the requested lists: one id, or category 1 followed by one id
CatLists == {<<a>> : a \in CatInputs} \cup {<<1, b>> : b \in CatInputs}

InitProd ==
  /\ InitCatalogAccounts
  /\ \E second \in {"live", "none"} :
       categories = [c \in CatIds |->
                       IF c = 1 THEN [status |-> "live", name |-> "Shoes", storeId |-> 1,
                                      image |-> 0, isSubcategory |-> FALSE,
                                      parentCategory |-> NoId]
                       ELSE IF c = 2 /\ second = "live"
                         THEN [status |-> "live", name |-> "Shoes", storeId |-> MaxStores,
                               image |-> 0, isSubcategory |-> FALSE,
                               parentCategory |-> NoId]
                       ELSE NoCategory("none")]
  /\ nextCategory = 2
  /\ products = [i \in ProductIds |-> NoProduct("none")]
  /\ nextProduct = 0
  /\ nextImage = 0
  /\ bucket = {}

NextProd ==
  \/ \E op \in ProductOps, body \in StoreIds : ValidateStore(1, op, 1, body, NoId, NoId)
  \/ AuthorizeStore(1)
  \/ \E cats \in CatLists, files \in 0..MaxFiles, color \in {"plain", "image"} :
       (color = "image" => files > 0) /\ createProduct(1, NoSku, cats, files, color)
  \/ \E fail \in CleanFailures(MaxImages), n \in 1..MaxSku : createProductCreate(1, fail, n)
  \/ \E id \in ProductIds \cup {Malformed}, cats \in CatLists \cup {<<>>},
        files \in 0..MaxFiles :
       updateProduct(1, id, NoSku, cats, files, NoFields)
  \/ \E fail \in CleanFailures(MaxImages) : updateProductSave(1, fail)
  \/ \E id \in ProductIds \cup {Malformed} : deleteProduct(1, id)
  \/ \E fails \in SUBSET (1..(2 * MaxImages)) : deleteProductDelete(1, fails)

SpecProd == InitProd /\ [][NextProd]_vars

\* SpecRace: the staff registry with two requests in flight at a time, no
\* history kept.
InitRace ==
  /\ \E g \in GlobalRoles : InitAccounts(g)
  /\ issued = NotKept
  /\ probe = NotKept
  /\ InitCatalogEmpty

NextRace ==
  \/ \E u \in Registrants, s \in 0..nextStore, r \in StoreRoleNames :
       (s = NoStore => r = "store_staff") /\ register(u, s, r)
  \/ \E p \in Slots, op \in {"manageStaffRole", "removeStaffRole"}, query \in StoreIds :
       ValidateStore(p, op, 1, NoId, NoId, query)
  \/ \E p \in Slots : AuthorizeStore(p)
  \/ \E p \in Slots, u \in UserIds : createStore(p, u, StoreName(nextStore + 1))
  \/ \E p \in Slots : createStorePush(p, TRUE)
  \/ \E p \in Slots, id \in StoreIds, u \in Registrants, r \in StoreRoleNames :
       manageStaffRole(p, id, u, r)
  \/ \E p \in Slots : manageStaffRoleSave(p)
  \/ \E p \in Slots, id \in StoreIds, u \in Registrants : removeStaffRole(p, id, u)
  \/ \E p \in Slots : removeStaffRoleSave(p)

SpecRace == InitRace /\ [][NextRace]_vars

\* SpecCascade: the staff registry while stores are deleted: slot 1 takes the
\* store creations and the staff changes, slot 2 a deleteStore that runs while
\* slot 1 is busy.
NextCascade ==
  \/ \E u \in Registrants, s \in 0..nextStore, r \in StoreRoleNames :
       (s = NoStore => r = "store_staff") /\ register(u, s, r)
  \/ \E query \in StoreIds : ValidateStore(1, "manageStaffRole", 1, NoId, NoId, query)
  \/ \E query \in StoreIds : ValidateStore(2, "deleteStore", 1, NoId, NoId, query)
  \/ \E p \in Slots : AuthorizeStore(p)
  \/ createStore(1, 1, StoreName(nextStore + 1))
  \/ createStorePush(1, TRUE)
  \/ \E id \in StoreIds, u \in Registrants, r \in StoreRoleNames :
       manageStaffRole(1, id, u, r)
  \/ manageStaffRoleSave(1)
  \/ \E id \in StoreIds : deleteStore(2, id)
  \/ deleteStoreDelete(2)

SpecCascade == InitRace /\ [][NextCascade]_vars

\* SpecRoles: the category routes, one request at a time, without files; user
\* 1 is store_admin of store 1 and store_manager of the other stores, user 2 is
\* store_staff of every store.
\* SpecAssets: createCategory, updateCategory and createProduct with uploaded
\* files, one request at a time, by user 1 in store 1; an upload of
\* updateCategory fails before its first put or not at all.
InitAssets ==
  /\ stores = [s \in StoreIds |-> LiveStore(s)]
  /\ nextStore = MaxStores
  /\ users = [u \in UserIds |->
                [exists |-> TRUE, role |-> "customer",
                 storeRoles |-> [s \in StoreIds |->
                                   [storeId |-> s,
                                    role |-> IF u # 1 THEN "store_staff"
                                             ELSE IF s = 1 THEN "store_admin"
                                             ELSE "store_manager"]]]]
  /\ tokens = [u \in UserIds |-> [role |-> "customer"]]
  /\ reqs = [p \in Slots |-> IdleReq]
  /\ issued = NotKept
  /\ probe = NotKept
  /\ InitCatalogEmpty

NextAssets ==
  \/ \E op \in {"createCategory", "updateCategory", "createProduct"} :
       ValidateStore(1, op, 1, 1, NoId, NoId)
  \/ AuthorizeStore(1)
  \/ \E name \in CategoryNames : createCategory(1, name, "absent", NoId)
  \/ \E file \in 0..1 : \E fail \in UploadFailures(file) :
       createCategoryCreate(1, file, fail)
  \/ \E id \in CatIds, name \in CategoryNames \cup {"none"} :
       updateCategory(1, id, name, "absent", NoId)
  \/ \E file \in 0..1, fails \in SUBSET (1..(2 * MaxImages)) :
       \E fail \in CleanFailures(file) : updateCategorySave(1, file, fail, fails)
  \/ \E c \in CatIds, files \in 0..1, color \in {"plain", "image"} :
       (color = "image" => files > 0) /\ createProduct(1, NoSku, <<c>>, files, color)
  \/ \E fail \in UploadFailures(MaxImages), n \in 1..MaxSku :
       createProductCreate(1, fail, n)

SpecAssets == InitAssets /\ [][NextAssets]_vars

\* SpecSku: createProduct, updateProduct and deleteProductImage, one request
\* at a time, the body with or without a sku of its own; no upload fails.
BodySkus == {NoSku, generateSKU(1, 1)}

NextSku ==
  \/ \E op \in {"createProduct", "updateProduct", "deleteProductImage"},
        body \in StoreIds : ValidateStore(1, op, 1, body, NoId, NoId)
  \/ AuthorizeStore(1)
  \/ \E bodySku \in BodySkus, c \in CatIds, files \in 0..1 :
       createProduct(1, bodySku, <<c>>, files, "plain")
  \/ \E n \in 1..MaxSku : createProductCreate(1, NoFailure, n)
  \/ \E id \in ProductIds, bodySku \in BodySkus, cats \in {<<>>, <<1>>},
        files \in 0..1 : updateProduct(1, id, bodySku, cats, files, NoFields)
  \/ updateProductSave(1, NoFailure)
  \/ \E id \in ProductIds, k \in 1..MaxImages : deleteProductImage(1, id, Pair(k))
  \/ deleteProductImageSave(1, {})

SpecSku == InitProd /\ [][NextSku]_vars

\* SpecOverlap: createProduct, updateProduct and deleteProduct, one request at
\* a time, with the object-store work of each taken await by await.
NextOverlap ==
  \/ \E op \in ProductOps : ValidateStore(1, op, 1, 1, NoId, NoId)
  \/ AuthorizeStore(1)
  \/ \E files \in 0..MaxFiles, color \in {"plain", "image", "images"} :
       (color # "plain" => files > 0) /\ createProduct(1, NoSku, <<1>>, files, color)
  \/ loopNext(1)
  \/ mapStart(1)
  \/ \E a \in 1..MaxImages : assetStep(1, a)
  \/ \E n \in 1..MaxSku : AssetsDone(reqs[1]) /\ createProductCreate(1, NoFailure, n)
  \/ \E id \in ProductIds, files \in 0..MaxFiles : updateProduct(1, id, NoSku, <<>>, files, NoFields)
  \/ AssetsDone(reqs[1]) /\ updateProductSave(1, NoFailure)
  \/ \E id \in ProductIds : deleteProduct(1, id)
  \/ AssetsDone(reqs[1]) /\ deleteProductDelete(1, {})

SpecOverlap == InitProd /\ [][NextOverlap]_vars

\* SpecTree: the category controller, one request at a time, none with a
\* file, with every combination of isSubcategory and parentCategoryId.
NextTree ==
  \/ \E op \in CategoryOps, body \in StoreIds : ValidateStore(1, op, 1, body, NoId, NoId)
  \/ AuthorizeStore(1)
  \/ \E name \in CategoryNames, isSubcategory \in SubInputs, parent \in {NoId} \cup CatIds :
       createCategory(1, name, isSubcategory, parent)
  \/ createCategoryCreate(1, 0, NoFailure)
  \/ \E id \in CatIds, name \in CategoryNames \cup {"none"},
        isSubcategory \in SubInputs, parent \in {NoId} \cup CatIds :
       updateCategory(1, id, name, isSubcategory, parent)
  \/ updateCategorySave(1, 0, NoFailure, {})
  \/ \E id \in CatIds : deleteCategory(1, id)
  \/ deleteCategoryDelete(1, {})

SpecTree == InitCat /\ [][NextTree]_vars

\* SpecScope: the five guarded store routes, one request at a time, called by
\* user 1, a customer who is store_admin of store 1 and of no other store;
\* the other users are store_staff of the last store.
InitScope ==
  /\ stores = [s \in StoreIds |-> LiveStore(s)]
  /\ nextStore = MaxStores
  /\ users = [u \in UserIds |->
                [exists |-> TRUE, role |-> "customer",
                 storeRoles |-> IF u = 1
                                THEN <<[storeId |-> 1, role |-> "store_admin"]>>
                                ELSE <<[storeId |-> MaxStores, role |-> "store_staff"]>>]]
  /\ tokens = [u \in UserIds |-> [role |-> "customer"]]
  /\ reqs = [p \in Slots |-> IdleReq]
  /\ issued = NotKept
  /\ probe = NotKept
  /\ InitCatalogEmpty

NextScope ==
  \/ \E op \in StoreOps, query \in StoreIds : ValidateStore(1, op, 1, NoId, NoId, query)
  \/ AuthorizeStore(1)
  \/ \E id \in StoreIds, a \in BOOLEAN : updateStore(1, id, a, <<>>, 0, FALSE, NoFailure)
  \/ \E id \in StoreIds : deleteStore(1, id)
  \/ deleteStoreDelete(1)
  \/ \E id \in StoreIds, u \in Registrants, r \in StoreRoleNames :
       manageStaffRole(1, id, u, r)
  \/ manageStaffRoleSave(1)
  \/ \E id \in StoreIds, u \in Registrants : removeStaffRole(1, id, u)
  \/ removeStaffRoleSave(1)
  \/ \E id \in StoreIds : getStoreStaff(1, id)

SpecScope == InitScope /\ [][NextScope]_vars

\* SpecCreate: register and createStore, two requests at a time, the update
\* of the creator's roles succeeding or not.
NextCreate ==
  \/ \E u \in Registrants : register(u, NoStore, "store_staff")
  \/ \E p \in Slots, u \in UserIds : createStore(p, u, StoreName(nextStore + 1))
  \/ \E p \in Slots, pushOk \in BOOLEAN : createStorePush(p, pushOk)
  \/ \E p \in Slots, op \in {"getStoreStaff"}, u \in UserIds, query \in StoreIds :
       ValidateStore(p, op, u, NoId, NoId, query)
  \/ \E p \in Slots : AuthorizeStore(p)
  \/ \E p \in Slots, id \in StoreIds : getStoreStaff(p, id)

SpecCreate == InitRace /\ [][NextCreate]_vars

\* SpecFields: one product is created, then updateProduct runs on it with
\* every body over name, description, price, featured, categories and colors.
FieldInputs ==
  [name : {"none", "Shoe"}, description : {"none", "Suede"}, price : PriceInputs,
   featured : SubInputs,
   colors : {NoColors, [given |-> TRUE, parsed |-> <<>>],
             [given |-> TRUE, parsed |-> <<NoPair>>]}]

NextFields ==
  \/ \E op \in {"createProduct", "updateProduct"} :
       ValidateStore(1, op, 1, 1, NoId, NoId)
  \/ AuthorizeStore(1)
  \/ nextProduct = 0 /\ createProduct(1, NoSku, <<1>>, 0, "plain")
  \/ \E n \in 1..MaxSku : createProductCreate(1, NoFailure, n)
  \/ \E cats \in {<<>>, <<1>>, <<1, 1>>}, fields \in FieldInputs :
       updateProduct(1, 1, NoSku, cats, 0, fields)
  \/ updateProductSave(1, NoFailure)

SpecFields == InitProd /\ [][NextFields]_vars

\* SpecSlug: user 1 creates stores and renames them, one request at a time,
\* with names that differ and have the same slug; no file is uploaded.
StoreNames == {<<"a", " ", "b">>, <<"a", "-", "b">>, <<"A", " ", "B">>,
               <<"a", "b", "c">>}

NextSlug ==
  \/ \E name \in StoreNames : createStore(1, 1, name)
  \/ createStorePush(1, TRUE)
  \/ \E query \in StoreIds : ValidateStore(1, "updateStore", 1, NoId, NoId, query)
  \/ AuthorizeStore(1)
  \/ \E a \in BOOLEAN, name \in StoreNames \cup {<<>>} :
       updateStore(1, reqs[1].store, a, name, 0, FALSE, NoFailure)

SpecSlug == InitRace /\ [][NextSlug]_vars

\* SpecObjects: the category controller and updateStore with uploaded files,
\* one request at a time, by user 1 in store 1; any upload and any
\* deleteFromS3 may fail.
NextObjects ==
  \/ \E op \in CategoryOps : ValidateStore(1, op, 1, 1, NoId, NoId)
  \/ ValidateStore(1, "updateStore", 1, NoId, NoId, 1)
  \/ AuthorizeStore(1)
  \/ \E logoFile \in 0..1, deleteThrows \in BOOLEAN :
       \E fail \in CleanFailures(logoFile) :
         updateStore(1, 1, TRUE, <<>>, logoFile, deleteThrows, fail)
  \/ \E name \in CategoryNames : createCategory(1, name, "absent", NoId)
  \/ \E file \in 0..1 : \E fail \in UploadFailures(file) :
       createCategoryCreate(1, file, fail)
  \/ \E id \in CatIds, name \in CategoryNames \cup {"none"} :
       updateCategory(1, id, name, "absent", NoId)
  \/ \E file \in 0..1, fails \in SUBSET (1..(2 * MaxImages)) :
       \E fail \in UploadFailures(file) : updateCategorySave(1, file, fail, fails)
  \/ \E id \in CatIds : deleteCategory(1, id)
  \/ \E fails \in SUBSET (1..(2 * MaxImages)) : deleteCategoryDelete(1, fails)

SpecObjects == InitAssets /\ [][NextObjects]_vars

\* SpecDelete: createProduct, deleteProduct and deleteProductImage, one request
\* at a time; no upload fails, any deleteFromS3 may throw.
NextDelete ==
  \/ \E op \in {"createProduct", "deleteProduct", "deleteProductImage"} :
       ValidateStore(1, op, 1, 1, NoId, NoId)
  \/ AuthorizeStore(1)
  \/ \E files \in 0..MaxFiles, color \in {"plain", "image"} :
       (color = "image" => files > 0) /\ createProduct(1, NoSku, <<1>>, files, color)
  \/ \E n \in 1..MaxSku : createProductCreate(1, NoFailure, n)
  \/ \E id \in ProductIds : deleteProduct(1, id)
  \/ \E fails \in SUBSET (1..(2 * MaxImages)) : deleteProductDelete(1, fails)
  \/ \E id \in ProductIds, k \in 1..MaxImages : deleteProductImage(1, id, Pair(k))
  \/ \E fails \in SUBSET (1..(2 * MaxImages)) : deleteProductImageSave(1, fails)

SpecDelete == InitProd /\ [][NextDelete]_vars

NextRoles ==
  \/ \E op \in CategoryOps, u \in UserIds, body \in StoreIds :
       ValidateStore(1, op, u, body, NoId, NoId)
  \/ AuthorizeStore(1)
  \/ \E name \in CategoryNames : createCategory(1, name, "absent", NoId)
  \/ createCategoryCreate(1, 0, NoFailure)
  \/ \E id \in CatIds, name \in CategoryNames \cup {"none"} :
       updateCategory(1, id, name, "absent", NoId)
  \/ updateCategorySave(1, 0, NoFailure, {})
  \/ \E id \in CatIds : deleteCategory(1, id)
  \/ deleteCategoryDelete(1, {})

SpecRoles == InitAssets /\ [][NextRoles]_vars

\* ------------------------------------------------------------ claims
Admins == {"admin", "superadmin"}

\* the refusals only authorizeStore answers with
AuthorizeDenials == {"401 Authentication required", "400 Store context is required",
                     "403 You do not have the required permissions for this store"}

\* the user's record holds a StoreRole for exactly this store with a role in R
HoldsStoreRole(u, s, R) ==
  /\ users[u].exists
  /\ \E i \in DOMAIN users[u].storeRoles :
       users[u].storeRoles[i].storeId = s /\ users[u].storeRoles[i].role \in R

HasEntryFor(u, s) ==
  \E i \in DOMAIN users[u].storeRoles : users[u].storeRoles[i].storeId = s

C2_OperatorLevel ==
  \A u \in UserIds, s \in StoreIds, R \in SUBSET StoreRoleNames :
    (authorizeStore([id |-> u, role |-> "customer"], s, R) = "next")
      <=> HoldsStoreRole(u, s, R)

C2_StepLevel ==
  \A p \in Slots :
    reqs[p].pc = "authorize" /\ reqs'[p].pc # "authorize"
      /\ tokens[reqs[p].user].role \notin Admins
    => /\ reqs'[p].pc \in {"handler", "done"}
       /\ (reqs'[p].pc = "handler")
            <=> HoldsStoreRole(reqs[p].user, reqs[p].store, RequiredRoles(reqs[p].op))

C2_StoreRoleDecides == []C2_OperatorLevel /\ [][C2_StepLevel]_vars

\* a customer holding an allowed role, but in another store only, was refused
C2_Witness ==
  \E p \in Slots :
    /\ reqs[p].pc = "done"
    /\ reqs[p].resp = "403 You do not have the required permissions for this store"
    /\ tokens[reqs[p].user].role = "customer"
    /\ ~HasEntryFor(reqs[p].user, reqs[p].store)
    /\ \E s \in StoreIds \ {reqs[p].store} :
         HoldsStoreRole(reqs[p].user, s, RequiredRoles(reqs[p].op))

\* C3: store-role decisions follow the live role list, not the token's: an
\* authorizeStore step decides by the User record as it is at that step; once
\* manageStaffRole has set store_admin for a user, a check requiring
\* store_admin lets that user through; once removeStaffRole has completed for
\* a store, no check for that store lets the user through.
C3_StepLevel ==
  \A p \in Slots, t \in UserIds, s \in StoreIds :
    /\ reqs[p].pc = "authorize" /\ reqs'[p].pc # "authorize"
         /\ tokens[reqs[p].user].role \notin Admins
       => ((reqs'[p].pc = "handler")
             <=> HoldsStoreRole(reqs[p].user, reqs[p].store, RequiredRoles(reqs[p].op)))
    /\ reqs[p].pc = "ms_save" /\ reqs[p].role = "store_admin"
         /\ reqs[p].target = t /\ reqs[p].id = s
         /\ reqs'[p].pc = "done"
         /\ reqs'[p].resp = "200 Staff role updated successfully"
       => authorizeStore([id |-> t, role |-> "customer"], s, {"store_admin"})' = "next"
    /\ reqs[p].pc = "rs_save" /\ reqs[p].target = t /\ reqs[p].id = s
         /\ reqs'[p].pc = "done"
         /\ reqs'[p].resp = "200 Staff role removed successfully"
       => \A R \in SUBSET StoreRoleNames :
            authorizeStore([id |-> t, role |-> "customer"], s, R)' # "next"

C3_LiveRoleList == [][C3_StepLevel]_vars

\* a user whose token says store_staff for the store is past a gate that
\* requires store_admin, the record having been upgraded since
C3_Witness ==
  \E p \in Slots :
    /\ reqs[p].pc = "handler"
    /\ RequiredRoles(reqs[p].op) = {"store_admin"}
    /\ tokens[reqs[p].user].role = "customer"
    /\ \E i \in DOMAIN issued[reqs[p].user] :
         issued[reqs[p].user][i] = [storeId |-> reqs[p].store, role |-> "store_staff"]
    /\ \A i \in DOMAIN issued[reqs[p].user] :
         issued[reqs[p].user][i].storeId = reqs[p].store
           => issued[reqs[p].user][i].role # "store_admin"

\* C4: validateStore takes the store id from the body, else the path, else the
\* query, and has exactly four outcomes: BadRequest when no id is given,
\* NotFound when the id names no live store, Forbidden when the store is
\* inactive, and the store attached otherwise; a request passes the gate only
\* in the last case.
C4_Resolved(body, params, query) ==
  IF body # NoId THEN body ELSE IF params # NoId THEN params ELSE query

C4_Outcome(pr) ==
  LET id == C4_Resolved(pr.body, pr.params, pr.query)
      live == id \in StoreIds /\ stores[id].status = "live"
  IN  /\ pr.out.status \in {"400 Store ID is required", "404 Store not found",
                            "403 Store is currently inactive", "next"}
      /\ pr.out.status = "400 Store ID is required" <=> id = NoId
      /\ pr.out.status = "404 Store not found" <=> id # NoId /\ ~live
      /\ pr.out.status = "403 Store is currently inactive"
           <=> live /\ ~stores[id].isActive
      /\ pr.out.status = "next" <=> live /\ stores[id].isActive /\ pr.out.store = id

C4_StepLevel ==
  /\ probe' # probe => C4_Outcome(probe')
  /\ \A p \in Slots :
       Idle(p) /\ reqs'[p].pc = "authorize"
         => stores[reqs'[p].store].status = "live" /\ stores[reqs'[p].store].isActive

C4_FourOutcomes == [][C4_StepLevel]_vars

\* a live category of store s carries the name
C5_Taken(name, s) ==
  \E c \in CatIds :
    categories[c].status = "live" /\ categories[c].name = name
      /\ categories[c].storeId = s

C5_NoDuplicateNames ==
  \A c \in CatIds, d \in CatIds :
    c # d /\ categories[c].status = "live" /\ categories[d].status = "live"
      /\ categories[c].storeId = categories[d].storeId
    => categories[c].name # categories[d].name

C5_StepLevel ==
  \A p \in Slots :
    /\ reqs[p].pc = "handler" /\ reqs[p].op = "createCategory"
         /\ reqs'[p].pc = "done"
         /\ reqs'[p].resp = "400 Category already exists in this store"
       => C5_Taken(reqs'[p].name, reqs[p].store)
    /\ reqs[p].pc = "cc_create" /\ reqs'[p].pc = "done"
         /\ ~C5_Taken(reqs[p].name, reqs[p].store)
         /\ reqs'[p].resp # "500 Error processing image"
       => /\ reqs'[p].resp = "201 Category created successfully"
          /\ categories'[reqs'[p].id].status = "live"
          /\ categories'[reqs'[p].id].name = reqs[p].name
          /\ categories'[reqs'[p].id].storeId = reqs[p].store

\* C5: whatever createCategory, updateCategory and deleteCategory calls have
\* run, interleaved or not, no two categories of one store have the same name;
\* a createCategory is refused as a duplicate only when its own store has the
\* name, and one whose store does not have the name is persisted, also when
\* another store has it.
C5_UniquePerStore == []C5_NoDuplicateNames /\ [][C5_StepLevel]_vars

\* two stores each have a category with the same name
C5_Witness ==
  \E c \in CatIds, d \in CatIds :
    /\ categories[c].status = "live" /\ categories[d].status = "live"
    /\ categories[c].name = categories[d].name
    /\ categories[c].storeId # categories[d].storeId

\* C6: when a createCategory that passed the existence check reaches the
\* insert and another category with that name has been persisted in the store
\* meanwhile, nothing more is persisted and the call is answered with the
\* conflict error, not with a server failure.
C6_StepLevel ==
  \A p \in Slots :
    reqs[p].pc = "cc_create" /\ reqs'[p].pc = "done"
      /\ C5_Taken(reqs[p].name, reqs[p].store)
      /\ reqs'[p].resp # "500 Error processing image"
    => /\ categories' = categories
       /\ reqs'[p].resp = "400 Category already exists in this store"

C6_RaceIsConflict == [][C6_StepLevel]_vars

\* the id resolves to a category of store s
C7_Resolves(id, s) ==
  id \in CatIds /\ categories[id].status = "live" /\ categories[id].storeId = s

C7_StepLevel ==
  \A p \in Slots, k \in ProductIds :
    /\ reqs[p].pc = "handler" /\ reqs'[p].pc \in {"cp_create", "up_save"}
       => \A i \in DOMAIN reqs'[p].cats : C7_Resolves(reqs'[p].cats[i], reqs[p].store)
    /\ reqs[p].pc \in {"cp_create", "up_save"} /\ reqs'[p].pc = "done"
         /\ reqs'[p].id = k
         /\ reqs'[p].resp \in {"201 Product created successfully",
                               "200 Product updated successfully"}
       => /\ \A i \in DOMAIN reqs[p].cats : C7_Resolves(reqs[p].cats[i], reqs[p].store)
          /\ \A i \in DOMAIN products'[k].categories :
               C7_Resolves(products'[k].categories[i], products'[k].storeId)

\* C7: createProduct, and updateProduct given a categories list, gets past the
\* category check, and persists, only when every id of the requested list
\* resolves to a category of the requesting store (none malformed, unknown or
\* of another store); on success every stored category id resolves to a
\* category of the product's store.
C7_CategoriesResolve == [][C7_StepLevel]_vars

\* the pairs with a key whose deletion throws
C8_Expected(pairs, fails) ==
  {pairs[i] : i \in {j \in DOMAIN pairs :
                       pairs[j].original \in fails \/ pairs[j].thumbnail \in fails}}

C8_Listed(failed) == {failed[i] : i \in DOMAIN failed}

C8_StepLevel ==
  \A p \in Slots, k \in ProductIds :
    reqs[p].pc = "dp_delete" /\ reqs[p].id = k /\ reqs'[p].pc # "dp_delete"
    => /\ reqs'[p].pc = "done"
       /\ products'[k].status # "live"
       /\ reqs'[p].resp \in
            {"200 Product and all associated images deleted successfully",
             "200 Product deleted successfully, but some images could not be deleted"}
       /\ C8_Listed(reqs'[p].failed) =
            C8_Expected(products[k].images, reqs'[p].fails)
              \cup C8_Expected(products[k].colors, reqs'[p].fails)
       /\ (reqs'[p].resp = "200 Product and all associated images deleted successfully")
            <=> reqs'[p].fails = {}

\* C8: deleteProduct, once it has found the product in the store, removes the
\* record whichever of the image deletions fail, and its response lists
\* exactly the pairs, top-level or per-color, for which a deletion failed.
C8_DeleteRegardless == [][C8_StepLevel]_vars

\* every deletion failed, of a product with a top-level pair and a color pair:
\* the record is gone and every pair is listed
C8_Witness ==
  \E p \in Slots :
    /\ reqs[p].pc = "done" /\ reqs[p].op = "deleteProduct"
    /\ Len(reqs[p].imgs) >= 1
    /\ \E i \in DOMAIN reqs[p].cimgs : reqs[p].cimgs[i] # NoPair
    /\ reqs[p].fails = (KeysOf(reqs[p].imgs) \cup KeysOf(reqs[p].cimgs)) \ {0}
    /\ Len(reqs[p].failed) = Len(reqs[p].imgs) + 1
    /\ products[reqs[p].id].status = "deleted"

C9_StepLevel ==
  \A p \in Slots, k \in ProductIds :
    reqs[p].pc = "up_save" /\ reqs[p].id = k /\ reqs'[p].pc = "done"
      /\ reqs'[p].resp = "200 Product updated successfully"
    => LET old == products[k].images
           new == products'[k].images
           n == reqs[p].files
       IN  /\ Len(new) = Len(old) + n
           /\ \A i \in 1..Len(old) : new[i] = old[i]
           /\ \A i \in 1..n : new[Len(old) + i] = Pair(nextImage + i)
           /\ \A i \in 1..n, j \in 1..Len(old) : new[Len(old) + i] # old[j]

\* C9: a successful updateProduct with n uploaded files leaves images[] equal
\* to the images[] before the save followed by the n new pairs in upload
\* order: the length grows by n, every earlier entry keeps value and position.
C9_ImagesAppended == [][C9_StepLevel]_vars

\* two files were uploaded to a product that had images: they follow the old
C9_Witness ==
  \E p \in Slots :
    /\ reqs[p].pc = "done" /\ reqs[p].op = "updateProduct"
    /\ reqs[p].resp = "200 Product updated successfully"
    /\ reqs[p].files = 2
    /\ Len(reqs[p].imgs) >= 1
    /\ products[reqs[p].id].status = "live"
    /\ Len(products[reqs[p].id].images) = Len(reqs[p].imgs) + 2
    /\ SubSeq(products[reqs[p].id].images, 1, Len(reqs[p].imgs)) = reqs[p].imgs

\* C10: in every reachable state, whatever register, createStore,
\* manageStaffRole and removeStaffRole calls have run and however they
\* interleaved, no user holds two StoreRole entries for the same store.
C10_OneRolePerStore ==
  \A u \in UserIds :
    \A i \in DOMAIN users[u].storeRoles, j \in DOMAIN users[u].storeRoles :
      i # j /\ users[u].storeRoles[i].storeId # NoStore
        => users[u].storeRoles[i].storeId # users[u].storeRoles[j].storeId

C11_StepLevel ==
  \A p \in Slots, t \in UserIds, s \in StoreIds :
    reqs[p].pc = "ms_save" /\ reqs[p].target = t /\ reqs[p].id = s
      /\ reqs'[p].pc = "done"
      /\ reqs'[p].resp = "200 Staff role updated successfully"
    => LET old == users[t].storeRoles
           new == users'[t].storeRoles
           entry == [storeId |-> s, role |-> reqs[p].role]
       IN  IF \E i \in DOMAIN old : old[i].storeId = s
             THEN /\ Len(new) = Len(old)
                  /\ \A i \in DOMAIN old :
                       new[i] = IF old[i].storeId = s THEN entry ELSE old[i]
           ELSE new = Append(old, entry)

\* C11: the save of a manageStaffRole(storeId, userId, role) that is answered
\* with success leaves the user's entry for that store with the given role,
\* overwritten in place when the record had one and appended at the end
\* otherwise, and every entry for another store as it was, in place.
C11_Upsert == [][C11_StepLevel]_vars

\* C13: once deleteStore has deleted a store, no user record holds a StoreRole
\* entry for it, in that state and in every later one, whatever
\* manageStaffRole and register calls ran before, during or after the deletion.
C13_NoRoleForDeletedStore ==
  \A s \in StoreIds, u \in UserIds :
    stores[s].status = "deleted"
      => \A i \in DOMAIN users[u].storeRoles : users[u].storeRoles[i].storeId # s

RECURSIVE C12_Without(_, _)
\* the list without its entries for store s, the others in their order
C12_Without(roles, s) ==
  IF roles = <<>> THEN <<>>
  ELSE (IF Head(roles).storeId = s THEN <<>> ELSE <<Head(roles)>>)
         \o C12_Without(Tail(roles), s)

C12_StepLevel ==
  \A p \in Slots, t \in UserIds, s \in StoreIds :
    /\ reqs[p].pc = "rs_save" /\ reqs[p].target = t /\ reqs[p].id = s
         /\ reqs'[p].pc = "done"
         /\ reqs'[p].resp = "200 Staff role removed successfully"
       => /\ C12_Without(users'[t].storeRoles, s) = C12_Without(users[t].storeRoles, s)
          /\ users' # users
               => \A i \in DOMAIN users'[t].storeRoles :
                    users'[t].storeRoles[i].storeId # s
    /\ reqs[p].pc = "rs_save" /\ reqs[p].target = t /\ reqs[p].id = s
         /\ reqs'[p].pc = "done"
         /\ (\A i \in DOMAIN users[t].storeRoles : users[t].storeRoles[i].storeId # s)
       => /\ reqs'[p].resp = "200 Staff role removed successfully"
          /\ users' = users

\* C12: the save of a removeStaffRole(storeId, userId) that is answered with
\* success leaves every entry the record holds for another store, in order,
\* and, when it writes, no entry for that store; it succeeds, changing
\* nothing, when the user has no entry for the store, so a second application
\* changes nothing.
C12_RemoveFilters == [][C12_StepLevel]_vars


C14_StepLevel ==
  \A p \in Slots :
    reqs[p].pc \in {"cc_create", "cp_create"} /\ reqs'[p].pc = "done"
      /\ reqs'[p].upload.at # 0
    => /\ categories' = categories /\ nextCategory' = nextCategory
       /\ products' = products /\ nextProduct' = nextProduct
       /\ reqs'[p].resp \in {"500 Error processing image", "500 Server error"}

\* C14: when the resize, the put of the original or the put of the thumbnail
\* of an uploaded file fails during createCategory or createProduct, the
\* request is answered with an error and no category or product is persisted.
C14_NoRecordOnFailedUpload == [][C14_StepLevel]_vars

\* a createProduct refused because the color's image, the upload after an
\* uploaded file, failed in the put of its thumbnail, in a store that has a
\* category created with an image
C14_Witness ==
  /\ reqs[1].pc = "done" /\ reqs[1].op = "createProduct"
  /\ reqs[1].upload = [at |-> 2, stage |-> "thumbnail"]
  /\ nextProduct = 0
  /\ \E c \in CatIds : categories[c].status = "live" /\ categories[c].image # 0

C15_StepLevel ==
  \A p \in Slots :
    reqs[p].pc = "uc_save" /\ reqs'[p].pc = "done" /\ reqs'[p].fails # {}
    => /\ nextImage' > nextImage \/ reqs'[p].upload.at # 0
       /\ nextImage' > nextImage
            => /\ reqs'[p].resp = "200 Category updated"
               /\ categories'[reqs[p].id].image = nextImage'

\* C15: in an updateCategory with a new image, a failure to delete the
\* previous image or thumbnail does not abort the update: the upload is still
\* attempted and, when it succeeds, the category is saved with the new image.
C15_DeleteFailureTolerated == [][C15_StepLevel]_vars

C16_StepLevel ==
  \A p \in Slots, u \in UserIds, s \in StoreIds :
    reqs[p].pc = "authorize" /\ reqs[p].op \in CategoryOps
      /\ reqs[p].user = u /\ reqs[p].store = s /\ reqs'[p].pc # "authorize"
    => /\ HoldsStoreRole(u, s, {"store_admin", "store_manager"})
            => reqs'[p].pc = "handler"
       /\ HoldsStoreRole(u, s, {"store_staff"})
            /\ ~HoldsStoreRole(u, s, {"store_admin", "store_manager"})
            => reqs'[p].resp = "403 You do not have the required permissions for this store"

\* C16: a principal holding store_admin or store_manager for the store passes
\* the gate of category create, update and delete; a principal holding only
\* store_staff is refused on each of the three.
C16_CategoryRoles == [][C16_StepLevel]_vars

\* the letters and digits an upper-cased base-36 or hexadecimal numeral is made of
C17_UpperBase36 ==
  {"0", "1", "2", "3", "4", "5", "6", "7", "8", "9"}
    \cup {Upper[k] : k \in DOMAIN Upper}

\* C17: the sku of every product is "SKU-", the last four characters of its
\* store's id, "-" and exactly four random base-36 characters, in upper case.
C17_SkuForm ==
  \A i \in ProductIds :
    products[i].status = "live"
    => /\ products[i].sku.prefix = "SKU-"
       /\ products[i].sku.storePrefix
            = toUpperCase(substr(toString(products[i].storeId), 4))
       /\ Len(products[i].sku.randomPart) = 4
       /\ \A k \in DOMAIN products[i].sku.randomPart :
            products[i].sku.randomPart[k] \in C17_UpperBase36

C18_NoDuplicateSku ==
  \A i, j \in ProductIds :
    i # j /\ products[i].status = "live" /\ products[j].status = "live"
      /\ products[i].storeId = products[j].storeId
    => products[i].sku # products[j].sku

C18_StepLevel ==
  /\ \A i \in ProductIds :
       products'[i].status = "live"
       => IF products[i].status = "live"
            THEN products'[i].sku = products[i].sku
          ELSE \E n \in 1..MaxSku :
                 products'[i].sku = generateSKU(products'[i].storeId, n)
  /\ \A p \in Slots :
       reqs[p].pc = "handler" /\ reqs'[p].pc = "done" /\ reqs'[p].sku # NoSku
       => products' = products /\ reqs'[p].resp = "400 \"sku\" is not allowed"

\* C18: no two products of one store have the same sku; a product's sku is
\* the one generateSKU made when it was created, a request that carries a sku
\* is refused and writes nothing, and no step of updateProduct or
\* deleteProductImage changes the sku of a product.
C18_SkuUniqueAndFixed == []C18_NoDuplicateSku /\ [][C18_StepLevel]_vars

\* a store with two products, after an updateProduct and a deleteProductImage
\* of the first, and a createProduct refused for a sku already in the store
C18_Witness ==
  /\ reqs[1].pc = "done" /\ reqs[1].op = "createProduct"
  /\ reqs[1].resp = "500 Server error"
  /\ \E i \in ProductIds :
       products[i].status = "live" /\ products[i].storeId = reqs[1].store
         /\ products[i].sku = reqs[1].sku
         /\ products[i].images = <<Pair(2)>>

\* the assets of the request in slot p with an object-store operation under way
C19_InStore(p) ==
  {a \in DOMAIN reqs[p].assets : reqs[p].assets[a] \in {"original", "thumbnail"}}

\* C19: within one createProduct, updateProduct or deleteProduct the
\* object-store operations on the several assets never overlap: at any moment
\* at most one asset, top-level or per-color, has a put or a delete under way.
C19_NoOverlap == \A p \in Slots : Cardinality(C19_InStore(p)) <= 1

\* the step answers the request in slot p with a conflict: a category name
\* taken in the store, or a generated sku taken in the store
C20_Conflict(p) ==
  /\ reqs[p].pc \in {"handler", "cc_create", "uc_save", "cp_create", "up_save"}
  /\ reqs'[p].pc = "done"
  /\ \/ reqs'[p].resp \in {"400 Category already exists in this store",
                           "400 Category name already exists in this store"}
     \/ /\ reqs[p].pc = "cp_create" /\ reqs'[p].resp = "500 Server error"
        /\ reqs'[p].sku # NoSku /\ DuplicateSku(reqs'[p].sku, reqs[p].store)

C20_StepLevel ==
  \A p \in Slots :
    C20_Conflict(p) => nextImage' = nextImage /\ UNCHANGED <<categories, products>>

\* C20: a create or update that ends in a conflict (category name or sku
\* already in the store) has put or deleted nothing in the object store and
\* written nothing to the datastore in the step that reports the conflict.
C20_ConflictBeforeEffects == [][C20_StepLevel]_vars

\* C21: every category has a parentCategory exactly when its isSubcategory
\* flag is true, and the parentCategory of a category is an existing category
\* of the same store.
C21_ParentIffSubcategory ==
  \A c \in CatIds :
    categories[c].status = "live"
    => /\ (categories[c].parentCategory # NoId) <=> categories[c].isSubcategory
       /\ categories[c].parentCategory # NoId
            => /\ categories[categories[c].parentCategory].status = "live"
               /\ categories[categories[c].parentCategory].storeId
                    = categories[c].storeId

\* C30: the hierarchy has one level: no category is its own parent, and the
\* parent of a category is not itself a subcategory.
C30_OneLevel ==
  \A c \in CatIds :
    categories[c].status = "live" /\ categories[c].parentCategory # NoId
    => /\ categories[c].parentCategory # c
       /\ ~categories[categories[c].parentCategory].isSubcategory
       /\ categories[categories[c].parentCategory].parentCategory = NoId

C25_StepLevel ==
  \A p \in Slots, s \in StoreIds :
    reqs[p].pc = "handler" /\ reqs[p].op \in StoreOps /\ reqs[p].store = s
      /\ tokens[reqs[p].user].role \notin Admins
    => /\ \A b \in StoreIds \ {s} : stores'[b] = stores[b]
       /\ \A u \in UserIds :
            FilterOutStore(users'[u].storeRoles, s) = FilterOutStore(users[u].storeRoles, s)
       /\ reqs'[p].pc \in {"ds_delete", "ms_save", "rs_save"} => reqs'[p].id = s
       /\ reqs'[p].resp = "200 Store staff fetched successfully" => reqs'[p].id = s

\* C25: for a principal who is not a platform admin, updateStore, deleteStore,
\* manageStaffRole, removeStaffRole and getStoreStaff act on the store that
\* validateStore resolved and authorizeStore authorised and on no other: no
\* other store is changed, no StoreRole entry of another store is changed, and
\* the store whose staff is written or listed is the authorised one.
C25_AuthorisedStoreOnly == [][C25_StepLevel]_vars

\* the step ends a createStore of store s by user u, or a manageStaffRole for
\* store s, which is behind authorizeStore(['store_admin'])
C26_Entitled(u, s) ==
  \E p \in Slots :
    /\ reqs'[p].pc = "done"
    /\ \/ reqs[p].pc = "cs_push" /\ reqs[p].user = u /\ reqs[p].store = s
       \/ reqs[p].pc = "ms_save" /\ reqs[p].target = u /\ reqs[p].id = s

C26_StepLevel ==
  \A u \in UserIds, s \in StoreIds :
    HasEntryFor(u, s)' /\ ~HasEntryFor(u, s) => C26_Entitled(u, s)

\* C26: a user gets a StoreRole entry for store S only by the user's own
\* createStore of S or by a call that passed authorizeStore(['store_admin']);
\* no unauthenticated request gives a user a StoreRole.
C26_RolesOnlyFromAdmins == [][C26_StepLevel]_vars

C23_StepLevel ==
  \A p \in Slots, u \in UserIds, s \in StoreIds :
    reqs[p].pc = "cs_push" /\ reqs[p].user = u /\ reqs[p].store = s
      /\ reqs'[p].pc = "done" /\ stores'[s].status = "live"
    => HoldsStoreRole(u, s, {"store_admin"})'

\* C23: when a createStore by user U ends and the store it created is
\* persisted, U holds the role store_admin for that store, also when the call
\* ends with an error after Store.create.
C23_CreatorIsAdmin == [][C23_StepLevel]_vars


\* C27: for every pair of images handled by deleteProduct and by
\* deleteProductImage, deleteFromS3 is called for the original and for the
\* thumbnail; a failed deletion of the original does not skip the thumbnail.
C27_BothAttempted ==
  \A p \in Slots :
    LET r == reqs[p]
    IN  (r.pc = "done" /\ r.op \in {"deleteProduct", "deleteProductImage"}
           /\ r.resp \in {"200 Product and all associated images deleted successfully",
                          "200 Product deleted successfully, but some images could not be deleted",
                          "200 Image and thumbnail deleted successfully"})
          => (KeysOf(r.imgs \o r.cimgs) \ {0}) \subseteq r.called


C24_StepLevel ==
  \A p \in Slots :
    (reqs[p].pc = "up_save" /\ reqs'[p].pc = "done"
       /\ reqs'[p].resp = "200 Product updated successfully")
      => LET f == reqs[p].fields
             old == products[reqs[p].id]
             new == products'[reqs[p].id]
         IN  /\ new.name = IF f.name # "none" THEN f.name ELSE old.name
             /\ new.description =
                  IF f.description # "none" THEN f.description ELSE old.description
             /\ new.price = IF f.price.enc # "absent" THEN f.price.n ELSE old.price
             /\ new.featured =
                  IF f.featured # "absent" THEN f.featured = "true" ELSE old.featured
             /\ new.categories =
                  IF reqs[p].cats # <<>> THEN reqs[p].cats ELSE old.categories
             /\ new.colors = IF f.colors.given THEN f.colors.parsed ELSE old.colors

\* C24: an updateProduct that answers 200 has set each of name, description,
\* price, featured, categories and colors that the body supplied, to the
\* supplied value, price 0 and featured false included, and has left the
\* others as they were; categories and colors are replaced as a whole.
C24_SuppliedFieldsSet == [][C24_StepLevel]_vars


\* C28: the key a deletion passes to deleteFromS3 is the key the object was
\* put under, so once deleteCategory has deleted a category with an image,
\* the image and the thumbnail whose deletion did not fail are no longer in
\* the object store.
C28_DeleteKeyIsPutKey ==
  \A p \in Slots :
    LET r == reqs[p]
    IN  (r.pc = "done" /\ r.op = "deleteCategory" /\ r.image # 0
           /\ r.resp = "200 Category was deleted successfully")
          => \A k \in KeysOf(<<Pair(r.image)>>) :
               /\ DeleteKey(publicUrl(categoryKey(k))) = categoryKey(k)
               /\ k \notin r.fails => categoryKey(k) \notin bucket


\* no two stores have the same slug
C22_UniqueSlugs ==
  \A s, t \in StoreIds :
    (s # t /\ stores[s].status = "live" /\ stores[t].status = "live")
      => stores[s].slug # stores[t].slug

\* a createStore or an updateStore whose name has the slug of another store
\* is answered with the conflict and writes nothing
C22_StepLevel ==
  \A p \in Slots :
    (reqs'[p] # reqs[p] /\ reqs'[p].pc = "done"
       /\ reqs'[p].op \in {"createStore", "updateStore"}
       /\ reqs'[p].storeName # <<>>
       /\ \E s \in StoreIds \ {reqs'[p].id} :
            stores[s].status = "live" /\ stores[s].slug = slug(reqs'[p].storeName))
      => /\ reqs'[p].resp = "400 Store name already exists"
         /\ stores' = stores

\* C22: the uniqueness of stores is checked on the slug derived from the
\* name, in createStore and in a rename by updateStore: the request is refused
\* as a conflict when the slug is that of a different store, and no two stores
\* share a slug.
C22_SlugConflict == []C22_UniqueSlugs /\ [][C22_StepLevel]_vars


\* the keys under which the objects of category id's image and thumbnail, or
\* of store id's logo, were put
C29_CategoryKeys(cats, id) ==
  IF cats[id].image = 0 THEN {}
  ELSE {categoryKey(k) : k \in KeysOf(<<Pair(cats[id].image)>>)}

C29_StoreKeys(docs, id) ==
  IF docs[id].logo = 0 THEN {} ELSE {storeKey(Pair(docs[id].logo).original)}

C29_StepLevel ==
  \A p \in Slots :
    (reqs'[p] # reqs[p] /\ reqs'[p].pc = "done"
       /\ reqs'[p].op \in {"updateCategory", "updateStore"})
      => LET id == IF reqs[p].pc = "uc_save" THEN reqs[p].id ELSE reqs'[p].id
             failed == reqs'[p].resp \notin {"200 Category updated",
                                            "200 Store updated successfully"}
             before == IF reqs'[p].op = "updateCategory" /\ id \in CatIds
                         THEN C29_CategoryKeys(categories, id)
                       ELSE IF reqs'[p].op = "updateStore" /\ id \in StoreIds
                         THEN C29_StoreKeys(stores, id)
                       ELSE {}
             after == IF reqs'[p].op = "updateCategory" /\ id \in CatIds
                        THEN C29_CategoryKeys(categories', id)
                      ELSE IF reqs'[p].op = "updateStore" /\ id \in StoreIds
                        THEN C29_StoreKeys(stores', id)
                      ELSE {}
         IN  /\ failed => /\ categories' = categories /\ stores' = stores
                           /\ before \cap bucket' = before \cap bucket
             /\ after \cap (bucket \ bucket') = {}

==============================================================================
